---- MODULE Spec2Model ----
(***************************************************************************)
(* MealAdapt: the client's API layer (token storage, token refresh,        *)
(* authenticatedFetch with its 401 and 5xx handling), the recipe-analysis  *)
(* endpoint it talks to, the Adapt page that drives it, and the components *)
(* that render an analysis.                                                *)
(***************************************************************************)
EXTENDS Integers, Sequences, FiniteSets, TLC

VARIABLES
    token,          \* localStorage[TOKEN_KEY]
    refresh_token,  \* localStorage[REFRESH_TOKEN_KEY]
    isRefreshing,   \* module flag of lib/api.ts (refreshPromise is non-null with it)
    af,             \* the authenticatedFetch call in progress
    recipe,         \* AdaptRecipe: textarea contents
    analysis,       \* AdaptRecipe: analysis shown
    loading,        \* AdaptRecipe: analyze in progress
    error,          \* AdaptRecipe: error message shown
    profile,        \* AdaptRecipe: family profile loaded on mount
    mounted,        \* AdaptRecipe: has the mount effect (loadProfile) run
    hadAnalysis,    \* was an analysis on screen when the current/last analyze started
    savedRecipe,    \* SavedRecipeCard: its recipe prop
    expanded,       \* SavedRecipeCard: "Show analysis" is open
    scanResult,     \* ScanResultDisplay: its result prop
    limits,         \* rate limiter: the limit N of each endpoint class
    counters,       \* rate limiter: calls admitted in the current window
    outbound,       \* Model Invoker: outbound calls made in the current window
    lastCall,       \* rate limiter: the last call and its result
    user,           \* AuthProvider: user (its id, or NULL)
    authLoading,    \* AuthProvider: loading
    lo,             \* AuthProvider.logout / api.logout in progress
    requireAuth,    \* ProtectedRoute: its requireAuth prop
    screen,         \* what the protected page shows
    pushed,         \* the route given to router.push, if any
    recipes,        \* RecipesContent: recipes
    recipesLoading, \* RecipesContent: loading
    filter,         \* RecipesContent: filter
    serverRecipes,  \* the saved recipes on the server
    requests,       \* RecipesContent: api calls in flight
    calls,          \* concurrent authenticatedFetch calls
    refreshPromise, \* refreshPromise of lib/api.ts: the refresh in progress
    homeMember,     \* Home: the conditions of the member in profile (MemberCard's prop)
    serverMember,   \* the conditions of the member stored on the server
    memberReqs,     \* Home / FamilyProfile: api calls in flight
    toggles,        \* the condition types the user toggled, in order
    intended,       \* the conditions with every toggle of the user applied
    memberFailed,   \* has a member request failed
    barcodeInput,   \* ScanPage: barcodeInput
    barcodeProduct, \* ScanPage: barcodeProduct
    barcodeAnalysis, \* ScanPage: barcodeAnalysis
    scanLoading,    \* ScanPage: loading
    scanError,      \* ScanPage: error
    scanReqs,        \* ScanPage: api calls in flight
    saving,         \* RecipeAnalysisDisplay: saving
    saved,          \* RecipeAnalysisDisplay: saved
    saveError,      \* RecipeAnalysisDisplay: error
    serverSaved,    \* the recipe_text of each saved recipe the server created
    saveClicks,     \* the number of clicks on "Save" that started a save
    analyzedText,    \* the recipe text that was submitted for the analysis shown
    listItems,      \* ShoppingContent: the items of the list in lists
    serverItems,    \* the items of the list stored on the server
    nextItemId,     \* the id the server gives to the next item
    shopReqs,       \* ShoppingContent: item requests in flight
    shopFailed,      \* has an item request failed
    currentWeek,    \* PlannerContent: currentWeek (weeks from today's)
    plan,           \* PlannerContent: plan
    planLoading,    \* PlannerContent: loading
    planReqs,       \* PlannerContent: getMealPlan calls in flight
    planFailed,      \* has a getMealPlan call failed
    li,             \* AuthProvider.login / register in progress
    formError       \* login and register pages: error

storage == <<token, refresh_token, isRefreshing>>
page == <<recipe, analysis, loading, error, profile, mounted, hadAnalysis>>
card == <<savedRecipe, expanded, scanResult>>
limiterVars == <<limits, counters, outbound, lastCall>>
authVars == <<user, authLoading, lo, requireAuth, screen, pushed>>
recipesVars == <<recipes, recipesLoading, filter, serverRecipes, requests>>
refreshVars == <<calls, refreshPromise>>
core == <<storage, af, page, card, limiterVars, authVars, recipesVars,
          refreshVars>>
\* State of the other pages, one group per page.
membersVars == <<homeMember, serverMember, memberReqs, toggles, intended, memberFailed>>
scanVars == <<barcodeInput, barcodeProduct, barcodeAnalysis, scanLoading, scanError, scanReqs>>
saveVars == <<saving, saved, saveError, serverSaved, saveClicks, analyzedText>>
shoppingVars == <<listItems, serverItems, nextItemId, shopReqs, shopFailed>>
plannerVars == <<currentWeek, plan, planLoading, planReqs, planFailed>>
loginVars == <<li, formError>>
besideMembers == <<scanVars, saveVars, shoppingVars, plannerVars, loginVars>>
sansMembers == <<core, besideMembers>>
besideScan == <<membersVars, saveVars, shoppingVars, plannerVars, loginVars>>
sansScan == <<core, besideScan>>
besideSave == <<membersVars, scanVars, shoppingVars, plannerVars, loginVars>>
sansSave == <<core, besideSave>>
besideShopping == <<membersVars, scanVars, saveVars, plannerVars, loginVars>>
sansShopping == <<core, besideShopping>>
besidePlanner == <<membersVars, scanVars, saveVars, shoppingVars, loginVars>>
sansPlanner == <<core, besidePlanner>>
besideLogin == <<membersVars, scanVars, saveVars, shoppingVars, plannerVars>>
sansLogin == <<core, besideLogin>>
views == <<membersVars, scanVars, saveVars, shoppingVars, plannerVars, loginVars>>
ext == <<limiterVars, authVars, recipesVars, refreshVars, views>>
vars == <<token, refresh_token, isRefreshing, af, recipe, analysis, loading,
          error, profile, mounted, hadAnalysis, savedRecipe, expanded,
          scanResult, limits, counters, outbound, lastCall, user,
          authLoading, lo, requireAuth, screen, pushed, recipes,
          recipesLoading, filter, serverRecipes, requests, calls,
          refreshPromise,
          homeMember, serverMember, memberReqs, toggles, intended, memberFailed,
          barcodeInput, barcodeProduct, barcodeAnalysis, scanLoading, scanError, scanReqs,
          saving, saved, saveError, serverSaved, saveClicks, analyzedText,
          listItems, serverItems, nextItemId, shopReqs, shopFailed,
          currentWeek, plan, planLoading, planReqs, planFailed,
          li, formError>>

----
\* Bounds of the model.
MaxMembers == 2
MaxVerdicts == 2
MaxTextLen == 4

\* Program constant: default value of the retries parameter.
DefaultRetries == 2

NULL == "null"
Null == [t |-> "null"]

----
\* Domain values (lib/types.ts).

VerdictType == {"safe", "needs_adaptation", "not_recommended"}

Range(s) == {s[i] : i \in 1..Len(s)}

IsInjective(s) == \A i, j \in 1..Len(s) : s[i] = s[j] => i = j

\* The ids of the family members, in the order the profile lists them.
MemberList == [i \in 1..MaxMembers |-> i]
MemberIds == Range(MemberList)
\* an id no profile contains
UnknownId == MaxMembers + 1

\* Sequences over S of length 0..n.
SeqUpTo(S, n) == UNION {[1..k -> S] : k \in 0..n}

\* FamilyProfile: members with unique ids (only the ids matter here).
Profiles == {[members |-> SubSeq(MemberList, 1, k)] : k \in 0..MaxMembers}

Has(doc, f) == f \in DOMAIN doc

----
\* The recipe-analysis endpoint (backend/app/services/ai_service.py and
\* backend/app/routes/recipe.py as given in mainmeal_analysis.md).

\* The model's completion is a text: a sequence of tokens.
\*   "FJ" = ```json   "F" = ```   "LB" = {   "RB" = }   "P" = prose
\* The fields between "LB" and "RB" are carried separately as the payload.
TextTokens == {"FJ", "F", "LB", "RB", "P"}
Texts == SeqUpTo(TextTokens, MaxTextLen)

\* "```" occurs in both fence tokens.
IsFence(tok) == tok \in {"F", "FJ"}

\* Index of the first token of s at or after position i that is in S, or
\* Len(s)+1.
FirstFrom(s, i, S) ==
    LET idx == {k \in i..Len(s) : s[k] \in S}
    IN  IF idx = {} THEN Len(s) + 1
        ELSE CHOOSE k \in idx : \A j \in idx : k <= j

\* text.split(sep)[1].split("```")[0]: what follows the first sep, up to
\* the next fence.
BetweenFences(s, Sep) ==
    LET a == FirstFrom(s, 1, Sep)
        b == FirstFrom(s, a + 1, {"F", "FJ"})
    IN  SubSeq(s, a + 1, b - 1)

StripFences(s) ==
    IF \E i \in 1..Len(s) : s[i] = "FJ" THEN BetweenFences(s, {"FJ"})
    ELSE IF \E i \in 1..Len(s) : IsFence(s[i]) THEN BetweenFences(s, {"F", "FJ"})
    ELSE s

\* json.loads: the text is one JSON object exactly when it is { fields }.
json_loads_ok(s) == s = <<"LB", "RB">>

\* _parse_ai_response: the payload, or the ValueError.
ParseError == [t |-> "ValueError"]
parse_ai_response(text, payload) ==
    IF json_loads_ok(StripFences(text)) THEN payload ELSE ParseError

\* Payloads: the fields of the JSON object the model wrote.
VerdictStrings == VerdictType \cup {"maybe"}
PayloadSafety == {"safe"}
VerdictEntries == [member_id : MemberIds \cup {UnknownId}, verdict : VerdictStrings]
VerdictSeqs == SeqUpTo(VerdictEntries, MaxVerdicts)

Payloads ==
    [dish_name : {"dish"}, base_description : {"desc"},
     overall_safety : PayloadSafety, member_verdicts : VerdictSeqs]
    \cup [dish_name : {"dish"}, base_description : {"desc"},
          overall_safety : PayloadSafety]
    \cup [dish_name : {"dish"}, base_description : {"desc"},
          member_verdicts : VerdictSeqs]
    \cup [dish_name : {"dish"}, overall_safety : PayloadSafety,
          member_verdicts : VerdictSeqs]
    \cup [base_description : {"desc"}, overall_safety : PayloadSafety,
          member_verdicts : VerdictSeqs]

\* RecipeAnalysis(**analysis_data): the pydantic model accepts the data
\* when the four required fields are present and every verdict is a
\* VerdictType.
RecipeAnalysisModel(data) ==
    /\ Has(data, "dish_name")
    /\ Has(data, "base_description")
    /\ Has(data, "overall_safety")
    /\ Has(data, "member_verdicts")
    /\ \A i \in 1..Len(data.member_verdicts) :
          data.member_verdicts[i].verdict \in VerdictType

\* HTTP responses and fetch rejections, as the client sees them.
Response(status, body, llm) ==
    [kind |-> "response", status |-> status, body |-> body,
     message |-> "", llm |-> llm]
Rejection(message) ==
    [kind |-> "reject", status |-> 0, body |-> Null,
     message |-> message, llm |-> "none"]

Detail(d) == [detail |-> d]

\* (variant: a document that does not parse is answered with what could
\* be read of it)
analyze_recipe_salvage(text, payload) ==
    LET data == parse_ai_response(text, payload)
    IN  IF data = ParseError
        THEN Response(200, [dish_name |-> "dish", base_description |-> "desc",
                            overall_safety |-> "safe", member_verdicts |-> <<>>],
                      "unparseable")
        ELSE IF ~RecipeAnalysisModel(data)
        THEN Response(500, Detail("validation error"), "none")
        ELSE Response(200, data, "none")

\* POST /api/recipe/analyze: analyze_recipe of the route calls
\* AIService.analyze_recipe and turns every exception into a 500.
analyze_recipe(text, payload) ==
    LET data == parse_ai_response(text, payload)
    IN  IF data = ParseError
        THEN Response(500, Detail("Failed to parse AI response"), "unparseable")
        ELSE IF ~RecipeAnalysisModel(data)
        THEN Response(500, Detail("validation error"), "none")
        ELSE Response(200, data, "none")

ParseableTexts == {t \in Texts : json_loads_ok(StripFences(t))}
UnparseableTexts == Texts \ ParseableTexts

AnalyzeResponses ==
    {analyze_recipe(t, CHOOSE p \in Payloads : TRUE) : t \in UnparseableTexts}
    \cup {analyze_recipe(t, p) : t \in ParseableTexts, p \in Payloads}

\* Statuses the rest of the server answers with (authentication, rate
\* limiting, validation, crashes), each with a {detail} body.
ErrorStatuses == {400, 401, 429, 500}
ErrorResponses == {Response(s, Detail("error"), "none") : s \in ErrorStatuses}

\* What fetch() itself rejects with.
AbortMessage == "The operation was aborted."
FetchFailures == {"Failed to fetch",
                  "NetworkError when attempting to fetch resource.",
                  "Load failed"}
FetchRejections == {Rejection(m) : m \in FetchFailures \cup {AbortMessage}}

\* Token pairs the server issues: <<access token, refresh token>>.
TokenPairs == {<<"atA", "rtA">>, <<"atB", "rtB">>}
\* POST /api/auth/refresh, when it accepts the refresh token: a new pair.
RefreshResponses(rt) ==
    {Response(200, [access_token |-> p[1], refresh_token |-> p[2]], "none") :
        p \in {q \in TokenPairs : q[2] # rt}}

ProfileResponses == {Response(200, p, "none") : p \in Profiles}

\* GET /api/auth/me and POST /api/auth/logout, when they succeed.
TheUser == [id |-> "user"]
UserResponses == {Response(200, TheUser, "none")}
LogoutResponses == {Response(200, [message |-> "Logged out"], "none")}

\* POST /api/recipes/saved, when it succeeds: the saved recipe.
SaveResponses == {Response(200, [id |-> "r1"], "none")}

\* POST /api/auth/login and /api/auth/register: an AuthResponse when
\* they succeed, and an error whose detail can be empty.
AuthResponses ==
    {Response(200, [access_token |-> p[1], refresh_token |-> p[2],
                    user |-> TheUser], "none") : p \in TokenPairs}
    \cup {Response(401, Detail(""), "none")}

\* Everything one network call of the given operation can end in.
FetchOutcomes(op, req) ==
    ErrorResponses \cup FetchRejections \cup
    (CASE op = "analyzeRecipe" -> AnalyzeResponses
       [] op = "getFamilyProfile" -> ProfileResponses
       [] op = "getCurrentUser" -> UserResponses
       [] op = "logout" -> LogoutResponses
       [] op = "refresh" -> RefreshResponses(req.refresh_token)
       [] op = "saveRecipe" -> SaveResponses
       [] op \in {"login", "register"} -> AuthResponses)

----
\* lib/api.ts: token storage, refreshAccessToken, fetchWithTimeout,
\* authenticatedFetch.

getToken == token
getRefreshToken == refresh_token

\* (variant: only the access token is removed)
removeTokenOnly ==
    /\ token' = NULL
    /\ UNCHANGED refresh_token

removeAllTokens ==
    /\ token' = NULL
    /\ refresh_token' = NULL

\* The token getAuthHeaders puts in the Authorization header (NULL: no
\* header).
getAuthHeaders(tok) == tok

Ok(status) == status >= 200 /\ status <= 299

TimeoutMessage == "Request timeout - please try again"
TimedOutMessage == "Request timed out. Please check your connection and try again."
NetworkErrorMessage == "Network error. Please check your internet connection."

\* String.prototype.includes on the messages that occur.
Includes(msg, needle) ==
    CASE needle = "timeout" -> msg = TimeoutMessage
      [] needle = "Failed to fetch" -> msg = "Failed to fetch"
      [] needle = "NetworkError" ->
            msg = "NetworkError when attempting to fetch resource."

\* fetchWithTimeout: the abort of the 30 s timer becomes the timeout
\* error, everything else passes through.
fetchWithTimeout(o) ==
    IF o.kind = "reject" /\ o.message = AbortMessage
    THEN Rejection(TimeoutMessage)
    ELSE o

\* The call record.  pc: "idle", "send1" (first fetch of the attempt in
\* flight), "refresh" (refresh request in flight), "send2" (the fetch
\* after a refresh in flight), "backoff" (waiting before the recursive
\* call), "done" (returned res, or thrown err).
\* hist records every network call that has settled; tok0 the stored
\* tokens when the call was made.
Idle ==
    [pc |-> "idle", op |-> "none", req |-> Null, retries |-> DefaultRetries,
     attempt |-> 0, auth |-> NULL, rt |-> NULL, res |-> Null, err |-> "",
     delay |-> 0, hist |-> <<>>, tok0 |-> <<NULL, NULL>>]

\* Body of authenticatedFetch up to its first await: the headers are
\* built from the stored token and the request is sent.
Enter(op, req, retries, attempt, hist, tok0, tok) ==
    [pc |-> "send1", op |-> op, req |-> req, retries |-> retries,
     attempt |-> attempt, auth |-> getAuthHeaders(tok), rt |-> NULL,
     res |-> Null, err |-> "", delay |-> 0, hist |-> hist, tok0 |-> tok0]

Event(kind, a, auth, o) ==
    [kind |-> kind, attempt |-> a.attempt, auth |-> auth,
     status |-> o.status, message |-> o.message, llm |-> o.llm]

Throw(a, msg) == [a EXCEPT !.pc = "done", !.err = msg]

\* catch of the first fetch.
FirstError(msg) ==
    IF Includes(msg, "timeout") THEN TimedOutMessage
    ELSE IF Includes(msg, "Failed to fetch") \/ Includes(msg, "NetworkError")
    THEN NetworkErrorMessage
    ELSE msg

\* catch of the fetch that follows a refresh.
SecondError(msg) ==
    IF Includes(msg, "timeout") THEN TimedOutMessage ELSE msg

\* (variant: a rejected fetch is retried like a 5xx response)
OnRejectRetry(a, msg) ==
    IF a.retries > 0
    THEN [a EXCEPT !.pc = "backoff", !.delay = 1000 * (3 - a.retries)]
    ELSE Throw(a, msg)

\* A rejected fetch ends the call: the error is thrown to the caller.
OnReject(a, msg) == Throw(a, msg)

\* (variant: the retries parameter is not checked against zero)
ShouldRetryUnbounded(status, retries) ==
    status >= 500 /\ status < 600 /\ retries >= 0

\* (variant: 4xx responses are retried too)
ShouldRetry4xx(status, retries) ==
    status >= 400 /\ status < 600 /\ retries > 0

\* (variant: the last retry is never made)
ShouldRetryOnce(status, retries) ==
    status >= 500 /\ status < 600 /\ retries > 1

\* "Retry logic for 5xx errors".
ShouldRetry(status, retries) ==
    status >= 500 /\ status < 600 /\ retries > 0

\* The end of authenticatedFetch once res is final for this attempt.
Finish(a, res) ==
    IF ShouldRetry(res.status, a.retries)
    THEN [a EXCEPT !.pc = "backoff", !.res = res,
                   !.delay = 1000 * (3 - a.retries)]
    ELSE [a EXCEPT !.pc = "done", !.res = res]

\* refreshAccessToken up to its await.  With one call at a time no
\* refresh is in progress here (isRefreshing is false).
refreshAccessToken(a, res) ==
    IF getRefreshToken = NULL
    THEN /\ removeAllTokens
         /\ UNCHANGED isRefreshing
         /\ af' = Finish(a, res)
    ELSE /\ isRefreshing' = TRUE
         /\ UNCHANGED <<token, refresh_token>>
         /\ af' = [a EXCEPT !.pc = "refresh", !.res = res,
                            !.rt = getRefreshToken]

\* The first fetch of an attempt settles.
Send1Settles ==
    /\ af.pc = "send1"
    /\ \E raw \in FetchOutcomes(af.op, af.req) :
         LET o == fetchWithTimeout(raw)
             a == [af EXCEPT !.hist = Append(@, Event("request", af, af.auth, o))]
         IN  IF o.kind = "reject"
             THEN af' = OnReject(a, FirstError(o.message)) /\ UNCHANGED storage
             ELSE IF o.status = 401
             THEN refreshAccessToken(a, o)
             ELSE af' = Finish(a, o) /\ UNCHANGED storage
    /\ UNCHANGED <<page, card, views, ext>>

\* (variant: the request is sent again with the headers built before the
\* refresh)
RefreshOkStaleHeaders(a, body) ==
    /\ token' = body.access_token
    /\ refresh_token' = body.refresh_token
    /\ af' = [a EXCEPT !.pc = "send2"]

\* The refresh request settles: the rest of refreshAccessToken, then
\* authenticatedFetch goes on with its result.
RefreshOk(a, body) ==
    /\ token' = body.access_token
    /\ refresh_token' = body.refresh_token
    /\ af' = [a EXCEPT !.pc = "send2", !.auth = getAuthHeaders(token')]

RefreshSettles ==
    /\ af.pc = "refresh"
    /\ \E raw \in FetchOutcomes("refresh", [refresh_token |-> af.rt]) :
         LET o == fetchWithTimeout(raw)
             a == [af EXCEPT !.hist = Append(@, Event("refresh", af, NULL, o))]
         IN  IF o.kind = "response" /\ Ok(o.status)
             THEN RefreshOk(a, o.body)
             ELSE removeAllTokens /\ af' = Finish(a, a.res)
    /\ isRefreshing' = FALSE
    /\ UNCHANGED <<page, card, views, ext>>

\* The fetch after a successful refresh settles.
Send2Settles ==
    /\ af.pc = "send2"
    /\ \E raw \in FetchOutcomes(af.op, af.req) :
         LET o == fetchWithTimeout(raw)
             a == [af EXCEPT !.hist = Append(@, Event("request", af, af.auth, o))]
         IN  IF o.kind = "reject"
             THEN af' = OnReject(a, SecondError(o.message))
             ELSE af' = Finish(a, o)
    /\ UNCHANGED <<storage, page, card, views, ext>>

\* (variant: the recursive call is made with the same retries)
BackoffElapsesSameRetries ==
    /\ af.pc = "backoff"
    /\ af' = Enter(af.op, af.req, af.retries, af.attempt + 1, af.hist,
                   af.tok0, getToken)
    /\ UNCHANGED <<storage, page, card, views, ext>>

\* The backoff timer fires: authenticatedFetch(url, options, retries - 1).
BackoffElapses ==
    /\ af.pc = "backoff"
    /\ af' = Enter(af.op, af.req, af.retries - 1, af.attempt + 1, af.hist,
                   af.tok0, getToken)
    /\ UNCHANGED <<storage, page, card, views, ext>>

\* What an api method makes of the finished call: it rethrows, throws its
\* own message when the response is not ok, or returns res.json().
ApiResult(a, failMessage) ==
    IF a.err # "" THEN [ok |-> FALSE, error |-> a.err, data |-> Null]
    ELSE IF ~Ok(a.res.status)
    THEN [ok |-> FALSE, error |-> failMessage, data |-> Null]
    ELSE [ok |-> TRUE, error |-> "", data |-> a.res.body]

analyzeRecipe(a) == ApiResult(a, "Failed to analyze recipe")
getFamilyProfile(a) == ApiResult(a, "Failed to fetch profile")

----
\* app/adapt/page.tsx: AdaptRecipe.

Recipes == {"", " ", "plain rice"}
Trim(r) == IF r = " " THEN "" ELSE r

AnalyzeFailedMessage ==
    "Failed to analyze recipe. Please check your API connection and try again."

\* useEffect on mount: loadProfile up to its await.
loadProfile ==
    /\ ~mounted
    /\ af.pc = "idle"
    /\ mounted' = TRUE
    /\ af' = Enter("getFamilyProfile", Null, DefaultRetries, 1, <<>>,
                   <<token, refresh_token>>, getToken)
    /\ UNCHANGED <<storage, recipe, analysis, loading, error, profile,
                   hadAnalysis, card, ext>>

\* loadProfile after its await.
loadProfileSettles ==
    /\ af.pc = "done"
    /\ af.op = "getFamilyProfile"
    /\ LET r == getFamilyProfile(af)
       IN  profile' = IF r.ok THEN r.data ELSE profile
    /\ af' = Idle
    /\ UNCHANGED <<storage, recipe, analysis, loading, error, mounted,
                   hadAnalysis, card, ext>>

\* The textarea's onChange, and handleSurprise.
setRecipe ==
    /\ \E r \in Recipes : r # recipe /\ recipe' = r
    /\ UNCHANGED <<storage, af, analysis, loading, error, profile, mounted,
                   hadAnalysis, card, ext>>

MembersLength(p) == IF p = Null THEN 0 ELSE Len(p.members)

\* The "Check for My Family" button is enabled.
AnalyzeEnabled ==
    ~(loading \/ Trim(recipe) = "" \/ MembersLength(profile) = 0)

\* (variant: the previous analysis is not cleared)
handleAnalyzeKeep ==
    /\ AnalyzeEnabled
    /\ ~(Trim(recipe) = "" \/ profile = Null)
    /\ af.pc = "idle"
    /\ loading' = TRUE
    /\ error' = NULL
    /\ hadAnalysis' = (analysis # Null)
    /\ af' = Enter("analyzeRecipe",
                   [recipe_text |-> recipe, family_profile |-> profile],
                   DefaultRetries, 1, <<>>, <<token, refresh_token>>, getToken)
    /\ UNCHANGED <<storage, recipe, analysis, profile, mounted, card, ext>>

\* handleAnalyze up to its await.
handleAnalyze ==
    /\ AnalyzeEnabled
    /\ ~(Trim(recipe) = "" \/ profile = Null)
    /\ af.pc = "idle"
    /\ loading' = TRUE
    /\ error' = NULL
    /\ analysis' = Null
    /\ hadAnalysis' = (analysis # Null)
    /\ af' = Enter("analyzeRecipe",
                   [recipe_text |-> recipe, family_profile |-> profile],
                   DefaultRetries, 1, <<>>, <<token, refresh_token>>, getToken)
    /\ UNCHANGED <<storage, recipe, profile, mounted, card, ext>>

\* catch of handleAnalyze: the message shown for the error caught.
handleAnalyzeCatch(err) == AnalyzeFailedMessage

\* handleAnalyze after its await: try, catch, finally.
handleAnalyzeSettles ==
    /\ af.pc = "done"
    /\ af.op = "analyzeRecipe"
    /\ LET r == analyzeRecipe(af)
       IN  IF r.ok
           THEN analysis' = r.data /\ UNCHANGED error
           ELSE error' = handleAnalyzeCatch(r.error) /\ UNCHANGED analysis
    /\ loading' = FALSE
    /\ af' = Idle
    /\ UNCHANGED <<storage, recipe, profile, mounted, hadAnalysis, card, ext>>

----
\* components/SavedRecipeCard.tsx (with MemberVerdictCard),
\* components/RecipeAnalysisDisplay.tsx, components/ScanResultDisplay.tsx:
\* what each renders for its props.

\* table[key] of a JavaScript object literal.
Lookup(table, key) ==
    IF key \in DOMAIN table THEN table[key] ELSE "undefined"

\* a || b
OrElse(a, b) == IF a \in {"undefined", ""} THEN b ELSE a

SAFETY_COLORS == [safe |-> "green", caution |-> "yellow", unsafe |-> "red"]

verdictConfig ==
    [safe |-> [style |-> "green", label |-> "Safe"],
     needs_adaptation |-> [style |-> "yellow", label |-> "Needs Adaptation"],
     not_recommended |-> [style |-> "red", label |-> "Not Recommended"]]

\* MemberVerdictCard: the config the card is drawn with.
MemberVerdictCard(verdict) ==
    LET config == IF verdict.verdict \in DOMAIN verdictConfig
                  THEN verdictConfig[verdict.verdict]
                  ELSE verdictConfig["safe"]
    IN  [member_id |-> verdict.member_id, verdict |-> verdict.verdict,
         style |-> config.style, label |-> config.label]

\* recipe.analysis?.overall_safety || 'safe'
overallSafety(r) ==
    OrElse(IF Has(r, "analysis") /\ Has(r.analysis, "overall_safety")
           THEN r.analysis.overall_safety
           ELSE "undefined",
           "safe")

\* SavedRecipeCard: the safety badge, and under "Show analysis" the
\* Family Analysis section with one card per member verdict.
SavedRecipeCard(r, isExpanded) ==
    LET os == overallSafety(r)
        section == isExpanded /\ Has(r, "analysis")
    IN  [safetyColor |-> OrElse(Lookup(SAFETY_COLORS, os), SAFETY_COLORS.safe),
         safetyLabel |-> IF os = "safe" THEN "Safe"
                         ELSE IF os = "caution" THEN "Caution"
                         ELSE "Unsafe",
         familyAnalysis |-> section,
         cards |-> IF section /\ Has(r.analysis, "member_verdicts")
                   THEN [i \in 1..Len(r.analysis.member_verdicts) |->
                            MemberVerdictCard(r.analysis.member_verdicts[i])]
                   ELSE <<>>]

VERDICT_CONFIG == verdictConfig

\* RecipeAnalysisDisplay: member_verdicts.map, and config.icon of
\* VERDICT_CONFIG[verdict.verdict]; either can throw a TypeError, and then
\* nothing is rendered.
RenderError == [t |-> "TypeError"]
RecipeAnalysisDisplay(a) ==
    IF ~Has(a, "member_verdicts") THEN RenderError
    ELSE IF \E i \in 1..Len(a.member_verdicts) :
               a.member_verdicts[i].verdict \notin DOMAIN VERDICT_CONFIG
    THEN RenderError
    ELSE [cards |-> [i \in 1..Len(a.member_verdicts) |->
             [member_id |-> a.member_verdicts[i].member_id,
              verdict |-> a.member_verdicts[i].verdict,
              style |-> VERDICT_CONFIG[a.member_verdicts[i].verdict].style,
              label |-> VERDICT_CONFIG[a.member_verdicts[i].verdict].label]]]

SAFETY_CONFIG ==
    [safe |-> [style |-> "green", label |-> "Safe for Family"],
     caution |-> [style |-> "yellow", label |-> "Use with Caution"],
     unsafe |-> [style |-> "red", label |-> "Not Recommended"]]

\* ScanResultDisplay: SAFETY_CONFIG[result.overall_safety] || SAFETY_CONFIG.caution
ScanResultDisplay(result) ==
    IF Has(result, "overall_safety") /\ result.overall_safety \in DOMAIN SAFETY_CONFIG
    THEN SAFETY_CONFIG[result.overall_safety]
    ELSE SAFETY_CONFIG.caution

\* The props these components can be given: JSON the server sent, which
\* the client does not validate.
SafetyStrings == {"safe", "caution", "unsafe", "unknown", ""}
CardEntries == [member_id : MemberIds, verdict : VerdictStrings]
CardVerdictSeqs == SeqUpTo(CardEntries, MaxVerdicts)
Analyses ==
    [dish_name : {"dish"}, overall_safety : SafetyStrings,
     member_verdicts : CardVerdictSeqs]
    \cup [dish_name : {"dish"}, overall_safety : SafetyStrings]
    \cup [dish_name : {"dish"}, member_verdicts : CardVerdictSeqs]
SavedRecipes ==
    [id : {"r1"}, dish_name : {"dish"}, is_favorite : BOOLEAN, analysis : Analyses]
    \cup [id : {"r1"}, dish_name : {"dish"}, is_favorite : BOOLEAN]
ScanResults ==
    [product_name : {"product"}, overall_safety : SafetyStrings]
    \cup [product_name : {"product"}]

\* SavedRecipeCard.handleExpand
handleExpand ==
    /\ expanded' = ~expanded
    /\ UNCHANGED <<storage, af, page, savedRecipe, scanResult, ext>>

----
\* The per-endpoint rate limiter in front of the Model Invoker.  Its code
\* (backend/app/middleware/rate_limit.py) is not among the sources: it is
\* modelled after the specification, a counter store keyed by (user,
\* endpoint class) whose counters are read and updated in one step.

\* Bound of the model: the largest limit N of an endpoint class.
MaxLimit == 2

Users == {"u1", "u2"}
EndpointClasses == {"analyze_recipe", "suggest_recipes"}
Keys == Users \X EndpointClasses
Limits == [EndpointClasses -> 1..MaxLimit]

NoCall == [user |-> "none", class |-> "none", result |-> "none"]

\* (variant: the call that finds the counter at the limit is admitted)
AdmitsAtLimit(count, limit) == count <= limit

\* A call is admitted while fewer than N calls are in the window.
Admits(count, limit) == count < limit

\* A call of user u to an endpoint of class e: admitted and passed on to
\* the Model Invoker, or failed with RateLimited.
LimitedCall(u, e) ==
    /\ IF Admits(counters[<<u, e>>], limits[e])
       THEN /\ counters' = [counters EXCEPT ![<<u, e>>] = @ + 1]
            /\ outbound' = [outbound EXCEPT ![<<u, e>>] = @ + 1]
            /\ lastCall' = [user |-> u, class |-> e, result |-> "Admitted"]
       ELSE /\ UNCHANGED <<counters, outbound>>
            /\ lastCall' = [user |-> u, class |-> e, result |-> "RateLimited"]
    /\ UNCHANGED <<limits, storage, af, page, card, views, authVars, recipesVars,
                   refreshVars>>

\* The oldest call of user u to class e leaves the rolling window.
WindowRolls(u, e) ==
    /\ counters[<<u, e>>] > 0
    /\ counters' = [counters EXCEPT ![<<u, e>>] = @ - 1]
    /\ outbound' = [outbound EXCEPT ![<<u, e>>] = @ - 1]
    /\ lastCall' = NoCall
    /\ UNCHANGED <<limits, storage, af, page, card, views, authVars, recipesVars,
                   refreshVars>>

----
\* components/AuthProvider.tsx, components/ProtectedRoute.tsx, and the
\* auth methods of lib/api.ts they call.

\* (variant: the loading flag is not looked at)
ProtectedRouteNoSpinner(isAuthenticated, isLoading, require) ==
    IF require /\ ~isAuthenticated THEN "null" ELSE "children"

\* ProtectedRoute: what it renders.
ProtectedRoute(isAuthenticated, isLoading, require) ==
    IF isLoading THEN "spinner"
    ELSE IF require /\ ~isAuthenticated THEN "null"
    ELSE "children"

\* ProtectedRoute's effect calls router.push('/login').
ProtectedRouteEffect(isAuthenticated, isLoading, require) ==
    ~isLoading /\ require /\ ~isAuthenticated

\* The protected page is rendered again after AuthProvider's state
\* changed, and its effect runs.
Render ==
    IF screen = "login"
    THEN UNCHANGED <<screen, pushed>>
    ELSE /\ screen' = ProtectedRoute(user' # NULL, authLoading', requireAuth)
         /\ pushed' = IF ProtectedRouteEffect(user' # NULL, authLoading', requireAuth)
                      THEN "/login" ELSE pushed

\* The router follows the push: the login page replaces the protected one.
routerNavigates ==
    /\ pushed = "/login"
    /\ screen # "login"
    /\ screen' = "login"
    /\ pushed' = NULL
    /\ UNCHANGED <<storage, af, page, card, views, limiterVars, user, authLoading, lo,
                   requireAuth, recipesVars, refreshVars>>

\* The user opens the protected page again: ProtectedRoute mounts.
openProtectedPage ==
    /\ screen = "login"
    /\ screen' = ProtectedRoute(user # NULL, authLoading, requireAuth)
    /\ pushed' = IF ProtectedRouteEffect(user # NULL, authLoading, requireAuth)
                 THEN "/login" ELSE pushed
    /\ UNCHANGED <<storage, af, page, card, views, limiterVars, user, authLoading, lo,
                   requireAuth, recipesVars, refreshVars>>

\* (variant: without a stored token the mount effect returns before
\* setLoading(false))
initAuthReturnsEarly ==
    /\ authLoading
    /\ af.pc = "idle"
    /\ IF getToken = NULL
       THEN /\ user' = NULL
            /\ UNCHANGED <<af, authLoading>>
       ELSE /\ af' = Enter("getCurrentUser", Null, DefaultRetries, 1, <<>>,
                           <<token, refresh_token>>, getToken)
            /\ UNCHANGED <<user, authLoading>>
    /\ Render
    /\ UNCHANGED <<storage, page, card, views, limiterVars, lo, requireAuth,
                   recipesVars, refreshVars>>

\* AuthProvider's mount effect: initAuth, up to the await in refreshUser
\* (without a stored token refreshUser returns at once).
initAuth ==
    /\ authLoading
    /\ af.pc = "idle"
    /\ IF getToken = NULL
       THEN /\ user' = NULL
            /\ authLoading' = FALSE
            /\ UNCHANGED af
       ELSE /\ af' = Enter("getCurrentUser", Null, DefaultRetries, 1, <<>>,
                           <<token, refresh_token>>, getToken)
            /\ UNCHANGED <<user, authLoading>>
    /\ Render
    /\ UNCHANGED <<storage, page, card, views, limiterVars, lo, requireAuth,
                   recipesVars, refreshVars>>

\* refreshUser called again (the profile page does after an update).
refreshUser ==
    /\ ~authLoading
    /\ af.pc = "idle"
    /\ IF getToken = NULL
       THEN /\ user' = NULL
            /\ UNCHANGED af
       ELSE /\ af' = Enter("getCurrentUser", Null, DefaultRetries, 1, <<>>,
                           <<token, refresh_token>>, getToken)
            /\ UNCHANGED user
    /\ UNCHANGED authLoading
    /\ Render
    /\ UNCHANGED <<storage, page, card, views, limiterVars, lo, requireAuth,
                   recipesVars, refreshVars>>

\* api.getCurrentUser after its await, refreshUser's try and catch, and
\* initAuth's setLoading(false).
refreshUserSettles ==
    /\ af.pc = "done"
    /\ af.op = "getCurrentUser"
    /\ IF af.err # ""
       THEN /\ user' = NULL
            /\ token' = NULL
            /\ UNCHANGED refresh_token
       ELSE IF Ok(af.res.status)
       THEN /\ user' = af.res.body.id
            /\ UNCHANGED <<token, refresh_token>>
       ELSE IF af.res.status = 401
       THEN /\ removeAllTokens
            /\ user' = NULL
       ELSE /\ user' = NULL
            /\ token' = NULL
            /\ UNCHANGED refresh_token
    /\ authLoading' = FALSE
    /\ af' = Idle
    /\ Render
    /\ UNCHANGED <<isRefreshing, page, card, views, limiterVars, lo, requireAuth,
                   recipesVars, refreshVars>>

NoLogout == [pc |-> "idle", outcome |-> "none"]

\* What the logout request ended in.
LogoutOutcome(o) ==
    IF o.kind = "reject"
    THEN (IF o.message = TimeoutMessage THEN "timeout" ELSE "network")
    ELSE IF Ok(o.status) THEN "ok" ELSE "error"

\* (variant: a rejected logout request is not caught)
api_logout_throws(o) ==
    IF o.kind = "reject"
    THEN UNCHANGED <<token, refresh_token>>
    ELSE removeAllTokens

\* api.logout after its await: errors are ignored, the tokens removed.
api_logout(o) == removeAllTokens

\* AuthProvider.logout up to the await in api.logout; without a stored
\* token no request is made and logout goes on at once.
logout ==
    /\ user # NULL
    /\ lo.pc = "idle"
    /\ IF getToken = NULL
       THEN /\ removeAllTokens
            /\ user' = NULL
            /\ lo' = [pc |-> "idle", outcome |-> "skipped"]
       ELSE /\ lo' = [pc |-> "fetch", outcome |-> "none"]
            /\ UNCHANGED <<token, refresh_token, user>>
    /\ UNCHANGED authLoading
    /\ Render
    /\ UNCHANGED <<isRefreshing, af, page, card, views, limiterVars, requireAuth,
                   recipesVars, refreshVars>>

\* The logout request settles: the rest of api.logout, then setUser(null).
logoutSettles ==
    /\ lo.pc = "fetch"
    /\ \E raw \in FetchOutcomes("logout", Null) :
         LET o == fetchWithTimeout(raw)
         IN  /\ api_logout(o)
             /\ lo' = [pc |-> "idle", outcome |-> LogoutOutcome(o)]
    /\ user' = NULL
    /\ UNCHANGED authLoading
    /\ Render
    /\ UNCHANGED <<isRefreshing, af, page, card, views, limiterVars, requireAuth,
                   recipesVars, refreshVars>>

----
\* app/recipes/page.tsx: RecipesContent (My Recipes), with the saved
\* recipes of the server it lists.

\* Bound of the model: api calls of the page in flight at a time.
MaxRequests == 2

RecipeIds == {"r1", "r2"}
ListedRecipes == [id : RecipeIds, is_favorite : BOOLEAN]

\* Lists of saved recipes: no id twice.
RecipeLists ==
    {l \in SUBSET ListedRecipes : \A x, y \in l : x.id = y.id => x = y}

\* GET /api/recipes/saved, with favorites_only=true for the favorites.
getSavedRecipes(favoritesOnly) ==
    IF favoritesOnly THEN {r \in serverRecipes : r.is_favorite}
    ELSE serverRecipes

\* recipes.filter over the search query; the search box is left empty, and
\* every dish name includes the empty string.
filteredRecipes == {r \in recipes : TRUE}

Remove(q, i) == SubSeq(q, 1, i - 1) \o SubSeq(q, i + 1, Len(q))

\* loadRecipes up to its await (the effect on mount and on a change of
\* filter).
loadRecipes(f) ==
    /\ recipesLoading' = TRUE
    /\ requests' = Append(requests, [kind |-> "load",
                                     favoritesOnly |-> (f = "favorites"),
                                     id |-> "none", is_favorite |-> FALSE,
                                     closure |-> {}])

\* A click on one of the filter tabs; the effect runs when filter changed.
setFilter(f) ==
    /\ f # filter
    /\ Len(requests) < MaxRequests
    /\ filter' = f
    /\ loadRecipes(f)
    /\ UNCHANGED <<recipes, serverRecipes>>
    /\ UNCHANGED <<storage, af, page, card, views, limiterVars, authVars, refreshVars>>

\* loadRecipes after its await: try, catch, finally.
loadRecipesSettles(i) ==
    /\ requests[i].kind = "load"
    /\ \/ recipes' = getSavedRecipes(requests[i].favoritesOnly)
       \/ UNCHANGED recipes
    /\ recipesLoading' = FALSE
    /\ requests' = Remove(requests, i)
    /\ UNCHANGED <<filter, serverRecipes>>
    /\ UNCHANGED <<storage, af, page, card, views, limiterVars, authVars, refreshVars>>

\* handleToggleFavorite up to its await: the heart of a listed recipe is
\* clicked.  The handler keeps the recipes of the render it was made in.
handleToggleFavorite(id, isFavorite) ==
    /\ ~recipesLoading
    /\ Len(requests) < MaxRequests
    /\ [id |-> id, is_favorite |-> ~isFavorite] \in filteredRecipes
    /\ requests' = Append(requests, [kind |-> "update", favoritesOnly |-> FALSE,
                                     id |-> id, is_favorite |-> isFavorite,
                                     closure |-> recipes])
    /\ UNCHANGED <<recipes, recipesLoading, filter, serverRecipes>>
    /\ UNCHANGED <<storage, af, page, card, views, limiterVars, authVars, refreshVars>>

\* recipes.map(r => r.id === id ? {...r, is_favorite: isFavorite} : r)
WithFavorite(l, id, isFavorite) ==
    {IF r.id = id THEN [r EXCEPT !.is_favorite = isFavorite] ELSE r : r \in l}

\* handleToggleFavorite after its await.
handleToggleFavoriteSettles(i) ==
    /\ requests[i].kind = "update"
    /\ \/ /\ \E r \in serverRecipes : r.id = requests[i].id
          /\ serverRecipes' = WithFavorite(serverRecipes, requests[i].id,
                                           requests[i].is_favorite)
          /\ recipes' = WithFavorite(requests[i].closure, requests[i].id,
                                     requests[i].is_favorite)
       \/ UNCHANGED <<recipes, serverRecipes>>
    /\ requests' = Remove(requests, i)
    /\ UNCHANGED <<recipesLoading, filter>>
    /\ UNCHANGED <<storage, af, page, card, views, limiterVars, authVars, refreshVars>>

\* handleDelete up to its await.
handleDelete(id) ==
    /\ ~recipesLoading
    /\ Len(requests) < MaxRequests
    /\ \E r \in filteredRecipes : r.id = id
    /\ requests' = Append(requests, [kind |-> "delete", favoritesOnly |-> FALSE,
                                     id |-> id, is_favorite |-> FALSE,
                                     closure |-> recipes])
    /\ UNCHANGED <<recipes, recipesLoading, filter, serverRecipes>>
    /\ UNCHANGED <<storage, af, page, card, views, limiterVars, authVars, refreshVars>>

\* handleDelete after its await.
handleDeleteSettles(i) ==
    /\ requests[i].kind = "delete"
    /\ \/ /\ \E r \in serverRecipes : r.id = requests[i].id
          /\ serverRecipes' = {r \in serverRecipes : r.id # requests[i].id}
          /\ recipes' = {r \in requests[i].closure : r.id # requests[i].id}
       \/ UNCHANGED <<recipes, serverRecipes>>
    /\ requests' = Remove(requests, i)
    /\ UNCHANGED <<recipesLoading, filter>>
    /\ UNCHANGED <<storage, af, page, card, views, limiterVars, authVars, refreshVars>>

----
\* lib/api.ts again: several authenticatedFetch calls at a time, which
\* share isRefreshing, refreshPromise and the stored tokens.  A call that
\* returns or throws goes back to its caller at once.

\* Bound of the model: authenticatedFetch calls in progress at a time.
MaxCalls == 2

Callers == 1..MaxCalls

\* A call and the refreshPromise it awaits (the caller whose
\* refreshAccessToken call made it), if any.
CallOf(f, awaits) == [f |-> f, awaits |-> awaits]
NoCallInProgress == CallOf(Idle, 0)

\* return res, or throw: the frame is gone.
Return(f) == IF f.pc = "done" THEN Idle ELSE f

\* (variant: a refresh in progress is not looked for)
NotRefreshing == FALSE

\* "If already refreshing, wait for that to complete".
AlreadyRefreshing == isRefreshing /\ refreshPromise # Null

\* A component calls an api method: authenticatedFetch up to its await.
authenticatedFetch(c) ==
    /\ calls[c].f.pc = "idle"
    /\ calls' = [calls EXCEPT ![c] =
                    CallOf(Enter("getFamilyProfile", Null, DefaultRetries, 1,
                                 <<>>, <<NULL, NULL>>, getToken), 0)]
    /\ UNCHANGED <<storage, refreshPromise>>
    /\ UNCHANGED <<af, page, card, views, limiterVars, authVars, recipesVars>>

\* The first fetch of an attempt of call c settles; on 401
\* refreshAccessToken is called and runs up to its await.
FirstFetchSettles(c) ==
    /\ calls[c].f.pc = "send1"
    /\ \E raw \in FetchOutcomes(calls[c].f.op, calls[c].f.req) :
         LET o == fetchWithTimeout(raw)
             a == calls[c].f
         IN  IF o.kind = "reject"
             THEN /\ calls' = [calls EXCEPT ![c] =
                        CallOf(Return(OnReject(a, FirstError(o.message))), 0)]
                  /\ UNCHANGED <<storage, refreshPromise>>
             ELSE IF o.status # 401
             THEN /\ calls' = [calls EXCEPT ![c] = CallOf(Return(Finish(a, o)), 0)]
                  /\ UNCHANGED <<storage, refreshPromise>>
             ELSE IF AlreadyRefreshing
             THEN /\ calls' = [calls EXCEPT ![c] =
                        CallOf([a EXCEPT !.pc = "refresh", !.res = o],
                               refreshPromise.owner)]
                  /\ UNCHANGED <<storage, refreshPromise>>
             ELSE IF getRefreshToken = NULL
             THEN /\ removeAllTokens
                  /\ calls' = [calls EXCEPT ![c] = CallOf(Return(Finish(a, o)), 0)]
                  /\ UNCHANGED <<isRefreshing, refreshPromise>>
             ELSE /\ isRefreshing' = TRUE
                  /\ refreshPromise' = [owner |-> c]
                  /\ calls' = [calls EXCEPT ![c] =
                        CallOf([a EXCEPT !.pc = "refresh", !.res = o,
                                         !.rt = getRefreshToken], c)]
                  /\ UNCHANGED <<token, refresh_token>>
    /\ UNCHANGED <<af, page, card, views, limiterVars, authVars, recipesVars>>

\* The refresh request of call p settles: the rest of refreshAccessToken,
\* then every call that awaits this refreshPromise goes on.
RefreshRequestSettles(p) ==
    /\ calls[p].f.pc = "refresh"
    /\ calls[p].awaits = p
    /\ \E raw \in FetchOutcomes("refresh", [refresh_token |-> calls[p].f.rt]) :
         LET o == fetchWithTimeout(raw)
             refreshed == o.kind = "response" /\ Ok(o.status)
         IN  /\ IF refreshed
                THEN /\ token' = o.body.access_token
                     /\ refresh_token' = o.body.refresh_token
                ELSE removeAllTokens
             /\ calls' = [c \in Callers |->
                    IF calls[c].f.pc = "refresh" /\ calls[c].awaits = p
                    THEN IF refreshed
                         THEN CallOf([calls[c].f EXCEPT !.pc = "send2",
                                         !.auth = getAuthHeaders(token')], 0)
                         ELSE CallOf(Return(Finish(calls[c].f, calls[c].f.res)), 0)
                    ELSE calls[c]]
    /\ isRefreshing' = FALSE
    /\ refreshPromise' = Null
    /\ UNCHANGED <<af, page, card, views, limiterVars, authVars, recipesVars>>

\* The fetch of call c after a successful refresh settles.
SecondFetchSettles(c) ==
    /\ calls[c].f.pc = "send2"
    /\ \E raw \in FetchOutcomes(calls[c].f.op, calls[c].f.req) :
         LET o == fetchWithTimeout(raw)
             a == calls[c].f
         IN  calls' = [calls EXCEPT ![c] =
                 CallOf(Return(IF o.kind = "reject"
                               THEN OnReject(a, SecondError(o.message))
                               ELSE Finish(a, o)), 0)]
    /\ UNCHANGED <<storage, refreshPromise>>
    /\ UNCHANGED <<af, page, card, views, limiterVars, authVars, recipesVars>>

\* The backoff timer of call c fires.
RetryAfterBackoff(c) ==
    /\ calls[c].f.pc = "backoff"
    /\ calls' = [calls EXCEPT ![c] =
                    CallOf(Enter(calls[c].f.op, calls[c].f.req,
                                 calls[c].f.retries - 1, calls[c].f.attempt + 1,
                                 <<>>, <<NULL, NULL>>, getToken), 0)]
    /\ UNCHANGED <<storage, refreshPromise>>
    /\ UNCHANGED <<af, page, card, views, limiterVars, authVars, recipesVars>>


----
\* Home page: FamilyProfile and MemberCard (health-condition toggles).

MaxToggles == 2

ConditionTypes == {"Diabetes", "Celiac (Gluten-Free)", "Peanut Allergy"}

NoMember == <<[type |-> "none", enabled |-> FALSE]>>

\* The condition lists the stored member can start with.
MemberConditionLists ==
    {<<[type |-> "Diabetes", enabled |-> TRUE]>>,
     <<[type |-> "Diabetes", enabled |-> TRUE],
       [type |-> "Peanut Allergy", enabled |-> FALSE]>>}

\* member.conditions.find(c => c.type === conditionType) found something.
existingCondition(conditions, conditionType) ==
    \E i \in 1..Len(conditions) : conditions[i].type = conditionType

\* updatedConditions of toggleCondition.
updatedConditions(conditions, conditionType) ==
    IF existingCondition(conditions, conditionType)
    THEN [i \in 1..Len(conditions) |->
            IF conditions[i].type = conditionType
            THEN [conditions[i] EXCEPT !.enabled = ~conditions[i].enabled]
            ELSE conditions[i]]
    ELSE Append(conditions, [type |-> conditionType, enabled |-> TRUE])

isConditionEnabled(conditions, conditionType) ==
    \E i \in 1..Len(conditions) :
        conditions[i].type = conditionType /\ conditions[i].enabled

\* MemberCard.toggleCondition -> FamilyProfile.handleUpdateMember up to its
\* await: the PUT carries the member prop with the one condition changed.
toggleCondition(conditionType) ==
    /\ homeMember # NoMember
    /\ Len(toggles) < MaxToggles
    /\ memberReqs' = Append(memberReqs,
                            [kind |-> "update",
                             conditions |-> updatedConditions(homeMember,
                                                              conditionType)])
    /\ toggles' = Append(toggles, conditionType)
    /\ intended' = updatedConditions(intended, conditionType)
    /\ UNCHANGED <<homeMember, serverMember, memberFailed>>
    /\ UNCHANGED sansMembers

\* update_member on the server, then handleUpdateMember after its await:
\* onUpdate() starts Home.loadProfile.
handleUpdateMemberSettles(i) ==
    /\ memberReqs[i].kind = "update"
    /\ \/ /\ serverMember' = memberReqs[i].conditions
          /\ memberReqs' = Append(Remove(memberReqs, i),
                                  [kind |-> "load", conditions |-> <<>>])
          /\ UNCHANGED memberFailed
       \/ /\ memberReqs' = Remove(memberReqs, i)
          /\ memberFailed' = TRUE
          /\ UNCHANGED serverMember
    /\ UNCHANGED <<homeMember, toggles, intended>>
    /\ UNCHANGED sansMembers

\* Home.loadProfile after its await.
homeLoadProfileSettles(i) ==
    /\ memberReqs[i].kind = "load"
    /\ memberReqs' = Remove(memberReqs, i)
    /\ \/ homeMember' = serverMember /\ UNCHANGED memberFailed
       \/ homeMember' = NoMember /\ memberFailed' = TRUE
    /\ UNCHANGED <<serverMember, toggles, intended>>
    /\ UNCHANGED sansMembers


----
\* app/scan/page.tsx: barcode mode.  The family profile is loaded and has
\* members.

MaxScanReqs == 2

Barcodes == {"b1", "b2"}
BarcodeInputs == {"", " "} \cup Barcodes

\* api.lookupBarcode: the product of the barcode, or an error.
lookupBarcode(barcode) ==
    {[ok |-> TRUE, data |-> [barcode |-> barcode], error |-> NULL],
     [ok |-> FALSE, data |-> Null, error |-> "Product not found"]}

\* api.analyzeBarcode: the analysis of the product of the barcode, or an
\* error.
analyzeBarcode(barcode) ==
    {[ok |-> TRUE, data |-> [product |-> [barcode |-> barcode]],
      error |-> NULL],
     [ok |-> FALSE, data |-> Null, error |-> "Failed to analyze product"]}

setBarcodeInput(v) ==
    /\ barcodeInput' = v
    /\ UNCHANGED <<barcodeProduct, barcodeAnalysis, scanLoading, scanError,
                   scanReqs>>
    /\ UNCHANGED sansScan

\* handleLookupBarcode up to its await, from the "Look Up" button (disabled
\* while loading or with a blank input) or from the Enter key of the input.
handleLookupBarcode(from) ==
    /\ from = "button" => ~(scanLoading \/ Trim(barcodeInput) = "")
    /\ Trim(barcodeInput) # ""
    /\ Len(scanReqs) < MaxScanReqs
    /\ scanLoading' = TRUE
    /\ scanError' = NULL
    /\ barcodeProduct' = Null
    /\ barcodeAnalysis' = Null
    /\ scanReqs' = Append(scanReqs, [kind |-> "lookup",
                                     barcode |-> Trim(barcodeInput)])
    /\ UNCHANGED barcodeInput
    /\ UNCHANGED sansScan

\* handleLookupBarcode after its await.
handleLookupBarcodeSettles(i) ==
    /\ scanReqs[i].kind = "lookup"
    /\ \E r \in lookupBarcode(scanReqs[i].barcode) :
         IF r.ok
         THEN barcodeProduct' = r.data /\ UNCHANGED scanError
         ELSE scanError' = r.error /\ UNCHANGED barcodeProduct
    /\ scanLoading' = FALSE
    /\ scanReqs' = Remove(scanReqs, i)
    /\ UNCHANGED <<barcodeInput, barcodeAnalysis>>
    /\ UNCHANGED sansScan

\* handleAnalyzeBarcode up to its await: the button is rendered with the
\* product while no analysis is shown, and disabled while loading.
handleAnalyzeBarcode ==
    /\ barcodeProduct # Null
    /\ barcodeAnalysis = Null
    /\ ~scanLoading
    /\ Len(scanReqs) < MaxScanReqs
    /\ scanLoading' = TRUE
    /\ scanError' = NULL
    /\ scanReqs' = Append(scanReqs, [kind |-> "analyze",
                                     barcode |-> barcodeProduct.barcode])
    /\ UNCHANGED <<barcodeInput, barcodeProduct, barcodeAnalysis>>
    /\ UNCHANGED sansScan

\* handleAnalyzeBarcode after its await.
handleAnalyzeBarcodeSettles(i) ==
    /\ scanReqs[i].kind = "analyze"
    /\ \E r \in analyzeBarcode(scanReqs[i].barcode) :
         IF r.ok
         THEN barcodeAnalysis' = r.data /\ UNCHANGED scanError
         ELSE scanError' = r.error /\ UNCHANGED barcodeAnalysis
    /\ scanLoading' = FALSE
    /\ scanReqs' = Remove(scanReqs, i)
    /\ UNCHANGED <<barcodeInput, barcodeProduct>>
    /\ UNCHANGED sansScan

\* The X button of the product card.
clearBarcode ==
    /\ barcodeProduct # Null
    /\ barcodeInput' = ""
    /\ barcodeProduct' = Null
    /\ barcodeAnalysis' = Null
    /\ scanError' = NULL
    /\ UNCHANGED <<scanLoading, scanReqs>>
    /\ UNCHANGED sansScan


----
\* components/RecipeAnalysisDisplay.tsx: the "Save" button, with the
\* server's store of saved recipes.

MaxSaves == 2

\* POST /api/recipes/saved on the server: a 2xx answer means the recipe
\* was created, a 4xx answer that it was not; a 5xx answer or a lost
\* response can follow either.
save_recipe(o, applied) ==
    /\ (o.kind = "response" /\ Ok(o.status)) => applied
    /\ (o.kind = "response" /\ o.status >= 400 /\ o.status < 500) => ~applied

\* The store after the request was handled.
SavedAfter(req, applied) ==
    IF applied THEN Append(serverSaved, req.recipe_text) ELSE serverSaved

\* handleSave up to its await.
handleSave ==
    /\ analysis # Null
    /\ ~(saved \/ saving)
    /\ af.pc = "idle"
    /\ saveClicks < MaxSaves
    /\ saving' = TRUE
    /\ saveError' = NULL
    /\ saveClicks' = saveClicks + 1
    /\ af' = Enter("saveRecipe",
                   [dish_name |-> analysis.dish_name,
                    recipe_text |-> OrElse(recipe, ""),
                    analysis |-> analysis],
                   DefaultRetries, 1, <<>>, <<token, refresh_token>>, getToken)
    /\ UNCHANGED <<saved, serverSaved, analyzedText>>
    /\ UNCHANGED <<storage, page, card, limiterVars, authVars, recipesVars,
                   refreshVars, besideSave>>

\* The first fetch of an attempt of saveRecipe settles: the server has
\* handled the POST (or not), then authenticatedFetch goes on.
saveFirstFetchSettles ==
    /\ af.pc = "send1"
    /\ af.op = "saveRecipe"
    /\ \E raw \in FetchOutcomes(af.op, af.req), applied \in BOOLEAN :
         LET o == fetchWithTimeout(raw)
             a == [af EXCEPT !.hist = Append(@, Event("request", af, af.auth, o))]
         IN  /\ save_recipe(raw, applied)
             /\ serverSaved' = SavedAfter(af.req, applied)
             /\ IF o.kind = "reject"
                THEN af' = OnReject(a, FirstError(o.message)) /\ UNCHANGED storage
                ELSE IF o.status = 401
                THEN refreshAccessToken(a, o)
                ELSE af' = Finish(a, o) /\ UNCHANGED storage
    /\ UNCHANGED <<saving, saved, saveError, saveClicks, analyzedText>>
    /\ UNCHANGED <<page, card, limiterVars, authVars, recipesVars,
                   refreshVars, besideSave>>

\* The fetch of saveRecipe after a successful refresh settles.
saveSecondFetchSettles ==
    /\ af.pc = "send2"
    /\ af.op = "saveRecipe"
    /\ \E raw \in FetchOutcomes(af.op, af.req), applied \in BOOLEAN :
         LET o == fetchWithTimeout(raw)
             a == [af EXCEPT !.hist = Append(@, Event("request", af, af.auth, o))]
         IN  /\ save_recipe(raw, applied)
             /\ serverSaved' = SavedAfter(af.req, applied)
             /\ IF o.kind = "reject"
                THEN af' = OnReject(a, SecondError(o.message))
                ELSE af' = Finish(a, o)
    /\ UNCHANGED <<saving, saved, saveError, saveClicks, analyzedText>>
    /\ UNCHANGED <<storage, page, card, limiterVars, authVars, recipesVars,
                   refreshVars, besideSave>>

saveRecipe(a) == ApiResult(a, "Failed to save recipe")

\* handleSave after its await: try, catch, finally.
handleSaveSettles ==
    /\ af.pc = "done"
    /\ af.op = "saveRecipe"
    /\ IF saveRecipe(af).ok
       THEN saved' = TRUE /\ UNCHANGED saveError
       ELSE saveError' = "Failed to save recipe" /\ UNCHANGED saved
    /\ saving' = FALSE
    /\ af' = Idle
    /\ UNCHANGED <<serverSaved, saveClicks, analyzedText>>
    /\ UNCHANGED <<storage, page, card, limiterVars, authVars, recipesVars,
                   refreshVars, besideSave>>


----
\* app/shopping/page.tsx: ShoppingContent with one list.  An item is
\* [id, is_checked]; the items of a list are a set of them.

MaxItems == 3
MaxShopReqs == 2

ItemIds == 1..MaxItems

\* The items the list can start with, as loadLists got them.
ItemLists ==
    {{[id |-> 1, is_checked |-> FALSE], [id |-> 2, is_checked |-> FALSE]},
     {[id |-> 1, is_checked |-> TRUE], [id |-> 2, is_checked |-> FALSE]}}

checkedCount(items) == Cardinality({i \in items : i.is_checked})
totalCount(items) == Cardinality(items)

\* list.items.map(i => i.id === item.id ? {...i, is_checked} : i)
WithChecked(items, id, is_checked) ==
    {IF i.id = id THEN [i EXCEPT !.is_checked = is_checked] ELSE i : i \in items}

\* list.items.filter(i => i.id !== itemId)
WithoutItem(items, id) == {i \in items : i.id # id}

\* handleToggleItem up to its await; closure is the lists of the render
\* that created the handler.
handleToggleItem(item) ==
    /\ item \in listItems
    /\ Len(shopReqs) < MaxShopReqs
    /\ shopReqs' = Append(shopReqs, [kind |-> "toggle", id |-> item.id,
                                     is_checked |-> ~item.is_checked,
                                     closure |-> listItems])
    /\ UNCHANGED <<listItems, serverItems, nextItemId, shopFailed>>
    /\ UNCHANGED sansShopping

\* The PUT is handled, then handleToggleItem after its await.
handleToggleItemSettles(i) ==
    LET r == shopReqs[i] IN
    /\ r.kind = "toggle"
    /\ \/ /\ \E it \in serverItems : it.id = r.id
          /\ serverItems' = WithChecked(serverItems, r.id, r.is_checked)
          /\ listItems' = WithChecked(r.closure, r.id, r.is_checked)
          /\ UNCHANGED shopFailed
       \/ /\ shopFailed' = TRUE
          /\ UNCHANGED <<listItems, serverItems>>
    /\ shopReqs' = Remove(shopReqs, i)
    /\ UNCHANGED nextItemId
    /\ UNCHANGED sansShopping

\* handleDeleteItem up to its await.
handleDeleteItem(itemId) ==
    /\ \E it \in listItems : it.id = itemId
    /\ Len(shopReqs) < MaxShopReqs
    /\ shopReqs' = Append(shopReqs, [kind |-> "delete", id |-> itemId,
                                     is_checked |-> FALSE,
                                     closure |-> listItems])
    /\ UNCHANGED <<listItems, serverItems, nextItemId, shopFailed>>
    /\ UNCHANGED sansShopping

\* The DELETE is handled, then handleDeleteItem after its await.
handleDeleteItemSettles(i) ==
    LET r == shopReqs[i] IN
    /\ r.kind = "delete"
    /\ \/ /\ \E it \in serverItems : it.id = r.id
          /\ serverItems' = WithoutItem(serverItems, r.id)
          /\ listItems' = WithoutItem(r.closure, r.id)
          /\ UNCHANGED shopFailed
       \/ /\ shopFailed' = TRUE
          /\ UNCHANGED <<listItems, serverItems>>
    /\ shopReqs' = Remove(shopReqs, i)
    /\ UNCHANGED nextItemId
    /\ UNCHANGED sansShopping

\* handleAddItem up to its await (the ingredient is not blank).
handleAddItem ==
    /\ Len(shopReqs) < MaxShopReqs
    /\ nextItemId + Cardinality({j \in 1..Len(shopReqs) :
                                    shopReqs[j].kind = "add"}) <= MaxItems
    /\ shopReqs' = Append(shopReqs, [kind |-> "add", id |-> 0,
                                     is_checked |-> FALSE,
                                     closure |-> listItems])
    /\ UNCHANGED <<listItems, serverItems, nextItemId, shopFailed>>
    /\ UNCHANGED sansShopping

\* The POST is handled, then handleAddItem after its await.
handleAddItemSettles(i) ==
    LET r == shopReqs[i]
        item == [id |-> nextItemId, is_checked |-> FALSE]
    IN
    /\ r.kind = "add"
    /\ \/ /\ serverItems' = serverItems \cup {item}
          /\ nextItemId' = nextItemId + 1
          /\ listItems' = r.closure \cup {item}
          /\ UNCHANGED shopFailed
       \/ /\ shopFailed' = TRUE
          /\ UNCHANGED <<listItems, serverItems, nextItemId>>
    /\ shopReqs' = Remove(shopReqs, i)
    /\ UNCHANGED sansShopping


----
\* app/pantry/page.tsx: PlannerContent.  A week is counted in weeks from
\* the current one; a planned meal is [date], its date being the Monday
\* of its week.

MaxWeek == 1
MaxPlanReqs == 2

Weeks == (0 - MaxWeek)..MaxWeek

\* api.getMealPlan(week): the plan the server stores for the week.
getMealPlan(week) ==
    [week_start |-> week,
     meals |-> IF week = 1 THEN {} ELSE {[date |-> week]}]

\* The meals the grid shows: getMealsForDay over weekDays.
getMealsForWeek(p, week) ==
    IF p = Null THEN {} ELSE {m \in p.meals : m.date = week}

\* The effect of [currentWeek]: loadPlan up to its await.
loadPlan(week) ==
    /\ Len(planReqs) < MaxPlanReqs
    /\ currentWeek' = week
    /\ planLoading' = TRUE
    /\ planReqs' = Append(planReqs, [week |-> week])
    /\ UNCHANGED <<plan, planFailed>>
    /\ UNCHANGED sansPlanner

handlePrevWeek ==
    /\ currentWeek - 1 \in Weeks
    /\ loadPlan(currentWeek - 1)

handleNextWeek ==
    /\ currentWeek + 1 \in Weeks
    /\ loadPlan(currentWeek + 1)

handleThisWeek == loadPlan(0)

\* loadPlan after its await: try, catch, finally.
loadPlanSettles(i) ==
    /\ \/ plan' = getMealPlan(planReqs[i].week) /\ UNCHANGED planFailed
       \/ planFailed' = TRUE /\ UNCHANGED plan
    /\ planLoading' = FALSE
    /\ planReqs' = Remove(planReqs, i)
    /\ UNCHANGED currentWeek
    /\ UNCHANGED sansPlanner


----
\* api.login and api.register, AuthProvider.login and register, and
\* handleSubmit of the login and register pages.

NoLogin == [pc |-> "idle", kind |-> "none", outcome |-> "none"]

FailMessage(kind) ==
    IF kind = "login" THEN "Invalid email or password"
    ELSE "Registration failed"

\* catch of api.login and api.register.
loginCatch(msg) ==
    IF Includes(msg, "timeout") THEN TimedOutMessage
    ELSE IF Includes(msg, "Failed to fetch") \/ Includes(msg, "NetworkError")
    THEN NetworkErrorMessage
    ELSE msg

\* api.login / api.register after the fetch, up to setToken.
api_login(kind, raw) ==
    LET o == fetchWithTimeout(raw)
    IN  IF o.kind = "reject"
        THEN [ok |-> FALSE, error |-> loginCatch(o.message), data |-> Null]
        ELSE IF ~Ok(o.status)
        THEN [ok |-> FALSE,
              error |-> loginCatch(OrElse(o.body.detail, FailMessage(kind))),
              data |-> Null]
        ELSE [ok |-> TRUE, error |-> "", data |-> o.body]

\* handleSubmit up to the await in api.login / api.register.
login(kind) ==
    /\ li.pc = "idle"
    /\ li' = [pc |-> "fetch", kind |-> kind, outcome |-> "none"]
    /\ formError' = ""
    /\ UNCHANGED <<core, besideLogin>>

\* (variant: the failure branch signs the user out)
loginFailedClears(msg) ==
    /\ formError' = msg
    /\ removeAllTokens
    /\ user' = NULL

\* The call failed: api.login throws, AuthProvider.login lets it pass and
\* handleSubmit's catch shows the message.
loginFailed(msg) ==
    /\ formError' = msg
    /\ UNCHANGED <<token, refresh_token, user>>

\* The request settles: the rest of api.login / api.register, of
\* AuthProvider.login / register and of handleSubmit.
loginSettles ==
    /\ li.pc = "fetch"
    /\ \E raw \in FetchOutcomes(li.kind, Null) :
         LET r == api_login(li.kind, raw)
         IN  IF r.ok
             THEN /\ token' = r.data.access_token
                  /\ refresh_token' = r.data.refresh_token
                  /\ user' = r.data.user.id
                  /\ li' = [li EXCEPT !.pc = "idle", !.outcome = "ok"]
                  /\ UNCHANGED formError
             ELSE /\ loginFailed(r.error)
                  /\ li' = [li EXCEPT !.pc = "idle", !.outcome = "failed"]
    /\ UNCHANGED <<authLoading, lo, requireAuth>>
    /\ Render
    /\ UNCHANGED <<isRefreshing, af, page, card, limiterVars, recipesVars,
                   refreshVars, besideLogin>>

LimiterIdle ==
    /\ limits = [e \in EndpointClasses |-> 1]
    /\ counters = [k \in Keys |-> 0]
    /\ outbound = [k \in Keys |-> 0]
    /\ lastCall = NoCall

AuthIdle ==
    /\ user = NULL
    /\ authLoading = TRUE
    /\ lo = NoLogout
    /\ requireAuth = TRUE
    /\ screen = "spinner"
    /\ pushed = NULL

RecipesIdle ==
    /\ recipes = {}
    /\ recipesLoading = TRUE
    /\ filter = "all"
    /\ serverRecipes = {}
    /\ requests = <<>>

RefreshIdle ==
    /\ calls = [c \in Callers |-> NoCallInProgress]
    /\ refreshPromise = Null


MembersIdle ==
    /\ homeMember = NoMember
    /\ serverMember = NoMember
    /\ memberReqs = <<>>
    /\ toggles = <<>>
    /\ intended = NoMember
    /\ memberFailed = FALSE


ScanIdle ==
    /\ barcodeInput = ""
    /\ barcodeProduct = Null
    /\ barcodeAnalysis = Null
    /\ scanLoading = FALSE
    /\ scanError = NULL
    /\ scanReqs = <<>>


SaveIdle ==
    /\ saving = FALSE
    /\ saved = FALSE
    /\ saveError = NULL
    /\ serverSaved = <<>>
    /\ saveClicks = 0
    /\ analyzedText = ""


ShoppingIdle ==
    /\ listItems = {}
    /\ serverItems = {}
    /\ nextItemId = 1
    /\ shopReqs = <<>>
    /\ shopFailed = FALSE


PlannerIdle ==
    /\ currentWeek = 0
    /\ plan = Null
    /\ planLoading = TRUE
    /\ planReqs = <<>>
    /\ planFailed = FALSE


LoginIdle ==
    /\ li = NoLogin
    /\ formError = ""

ViewsIdle ==
    /\ MembersIdle
    /\ ScanIdle
    /\ SaveIdle
    /\ ShoppingIdle
    /\ PlannerIdle
    /\ LoginIdle

OnlyMembers ==
    /\ ScanIdle
    /\ SaveIdle
    /\ ShoppingIdle
    /\ PlannerIdle
    /\ LoginIdle

OnlyScan ==
    /\ MembersIdle
    /\ SaveIdle
    /\ ShoppingIdle
    /\ PlannerIdle
    /\ LoginIdle

OnlySave ==
    /\ MembersIdle
    /\ ScanIdle
    /\ ShoppingIdle
    /\ PlannerIdle
    /\ LoginIdle

OnlyShopping ==
    /\ MembersIdle
    /\ ScanIdle
    /\ SaveIdle
    /\ PlannerIdle
    /\ LoginIdle

OnlyPlanner ==
    /\ MembersIdle
    /\ ScanIdle
    /\ SaveIdle
    /\ ShoppingIdle
    /\ LoginIdle

OnlyLogin ==
    /\ MembersIdle
    /\ ScanIdle
    /\ SaveIdle
    /\ ShoppingIdle
    /\ PlannerIdle

----
\* The stored tokens a session can start with: logged in, logged out, or
\* the access token alone removed (refreshUser's catch).
InitialTokens ==
    {<<"atA", "rtA">>, <<NULL, NULL>>, <<NULL, "rtA">>}

NoSavedRecipe == [id |-> "none"]
NoScanResult == [product_name |-> "none"]

Init ==
    /\ ViewsIdle
    /\ \E tk \in InitialTokens : token = tk[1] /\ refresh_token = tk[2]
    /\ isRefreshing = FALSE
    /\ af = Idle
    /\ recipe = ""
    /\ analysis = Null
    /\ loading = FALSE
    /\ error = NULL
    /\ profile = Null
    /\ mounted = FALSE
    /\ hadAnalysis = FALSE
    /\ savedRecipe = NoSavedRecipe
    /\ expanded = FALSE
    /\ scanResult = NoScanResult
    /\ LimiterIdle
    /\ AuthIdle
    /\ RecipesIdle
    /\ RefreshIdle

Next ==
    \/ loadProfile
    \/ loadProfileSettles
    \/ setRecipe
    \/ handleAnalyze
    \/ handleAnalyzeSettles
    \/ Send1Settles
    \/ RefreshSettles
    \/ Send2Settles
    \/ BackoffElapses

Spec == Init /\ [][Next]_vars

\* The components alone, over every props value.
InitCards ==
    /\ ViewsIdle
    /\ token = NULL
    /\ refresh_token = NULL
    /\ isRefreshing = FALSE
    /\ af = Idle
    /\ recipe = ""
    /\ analysis = Null
    /\ loading = FALSE
    /\ error = NULL
    /\ profile = Null
    /\ mounted = FALSE
    /\ hadAnalysis = FALSE
    /\ savedRecipe \in SavedRecipes
    /\ expanded = FALSE
    /\ scanResult \in ScanResults
    /\ LimiterIdle
    /\ AuthIdle
    /\ RecipesIdle
    /\ RefreshIdle

NextCards == handleExpand

SpecCards == InitCards /\ [][NextCards]_vars

\* The components alone: no call, nothing on the Adapt page.
PageIdle ==
    /\ af = Idle
    /\ recipe = ""
    /\ analysis = Null
    /\ loading = FALSE
    /\ error = NULL
    /\ profile = Null
    /\ mounted = FALSE
    /\ hadAnalysis = FALSE
    /\ savedRecipe = NoSavedRecipe
    /\ expanded = FALSE
    /\ scanResult = NoScanResult

\* The rate limiter alone.
InitLimiter ==
    /\ ViewsIdle
    /\ token = NULL
    /\ refresh_token = NULL
    /\ isRefreshing = FALSE
    /\ PageIdle
    /\ limits \in Limits
    /\ counters = [k \in Keys |-> 0]
    /\ outbound = [k \in Keys |-> 0]
    /\ lastCall = NoCall
    /\ AuthIdle
    /\ RecipesIdle
    /\ RefreshIdle

\* AuthProvider with a protected page, and the Adapt page's profile load
\* as a request of another component.
InitAuth ==
    /\ ViewsIdle
    /\ \E tk \in InitialTokens : token = tk[1] /\ refresh_token = tk[2]
    /\ isRefreshing = FALSE
    /\ PageIdle
    /\ LimiterIdle
    /\ user = NULL
    /\ authLoading = TRUE
    /\ lo = NoLogout
    /\ requireAuth \in BOOLEAN
    /\ screen = "spinner"
    /\ pushed = NULL
    /\ RecipesIdle
    /\ RefreshIdle

NextAuth ==
    \/ initAuth
    \/ refreshUser
    \/ refreshUserSettles
    \/ logout
    \/ logoutSettles
    \/ routerNavigates
    \/ openProtectedPage
    \/ loadProfile
    \/ loadProfileSettles
    \/ Send1Settles
    \/ RefreshSettles
    \/ Send2Settles
    \/ BackoffElapses

SpecAuth == InitAuth /\ [][NextAuth]_vars

\* The My Recipes page after its mount: the first load is in flight.
InitRecipes ==
    /\ ViewsIdle
    /\ token = NULL
    /\ refresh_token = NULL
    /\ isRefreshing = FALSE
    /\ PageIdle
    /\ LimiterIdle
    /\ AuthIdle
    /\ recipes = {}
    /\ recipesLoading = TRUE
    /\ filter = "all"
    /\ serverRecipes \in RecipeLists
    /\ requests = <<[kind |-> "load", favoritesOnly |-> FALSE, id |-> "none",
                     is_favorite |-> FALSE, closure |-> {}]>>
    /\ RefreshIdle

NextRecipes ==
    \/ \E f \in {"all", "favorites"} : setFilter(f)
    \/ \E i \in 1..Len(requests) : loadRecipesSettles(i)
    \/ \E id \in RecipeIds, b \in BOOLEAN : handleToggleFavorite(id, b)
    \/ \E i \in 1..Len(requests) : handleToggleFavoriteSettles(i)
    \/ \E id \in RecipeIds : handleDelete(id)
    \/ \E i \in 1..Len(requests) : handleDeleteSettles(i)

SpecRecipes == InitRecipes /\ [][NextRecipes]_vars

\* Concurrent calls of api methods.
InitRefresh ==
    /\ ViewsIdle
    /\ \E tk \in InitialTokens : token = tk[1] /\ refresh_token = tk[2]
    /\ isRefreshing = FALSE
    /\ PageIdle
    /\ LimiterIdle
    /\ AuthIdle
    /\ RecipesIdle
    /\ RefreshIdle

NextRefresh ==
    \/ \E c \in Callers : authenticatedFetch(c)
    \/ \E c \in Callers : FirstFetchSettles(c)
    \/ \E c \in Callers : RefreshRequestSettles(c)
    \/ \E c \in Callers : SecondFetchSettles(c)
    \/ \E c \in Callers : RetryAfterBackoff(c)

SpecRefresh == InitRefresh /\ [][NextRefresh]_vars

NextLimiter ==
    \/ \E u \in Users, e \in EndpointClasses : LimitedCall(u, e)
    \/ \E u \in Users, e \in EndpointClasses : WindowRolls(u, e)

SpecLimiter == InitLimiter /\ [][NextLimiter]_vars


----
\* Home page with one family member: the mount effect's loadProfile is in
\* flight.
InitMembers ==
    /\ token = "atA"
    /\ refresh_token = "rtA"
    /\ isRefreshing = FALSE
    /\ PageIdle
    /\ LimiterIdle
    /\ AuthIdle
    /\ RecipesIdle
    /\ RefreshIdle
    /\ OnlyMembers
    /\ serverMember \in MemberConditionLists
    /\ intended = serverMember
    /\ homeMember = NoMember
    /\ memberReqs = <<[kind |-> "load", conditions |-> <<>>]>>
    /\ toggles = <<>>
    /\ memberFailed = FALSE

NextMembers ==
    \/ \E t \in ConditionTypes : toggleCondition(t)
    \/ \E i \in 1..Len(memberReqs) : handleUpdateMemberSettles(i)
    \/ \E i \in 1..Len(memberReqs) : homeLoadProfileSettles(i)

SpecMembers == InitMembers /\ [][NextMembers]_vars


----
\* The Scan page in barcode mode.
InitScan ==
    /\ token = "atA"
    /\ refresh_token = "rtA"
    /\ isRefreshing = FALSE
    /\ PageIdle
    /\ LimiterIdle
    /\ AuthIdle
    /\ RecipesIdle
    /\ RefreshIdle
    /\ ViewsIdle

NextScan ==
    \/ \E v \in BarcodeInputs : setBarcodeInput(v)
    \/ \E from \in {"button", "Enter"} : handleLookupBarcode(from)
    \/ \E i \in 1..Len(scanReqs) : handleLookupBarcodeSettles(i)
    \/ handleAnalyzeBarcode
    \/ \E i \in 1..Len(scanReqs) : handleAnalyzeBarcodeSettles(i)
    \/ clearBarcode

SpecScan == InitScan /\ [][NextScan]_vars


----
\* The Adapt page once an analysis is shown: the textarea still holds the
\* text that was submitted, and RecipeAnalysisDisplay has just mounted.
ShownAnalyses ==
    {r.body : r \in {q \in AnalyzeResponses : Ok(q.status)}}

InitSave ==
    /\ token = "atA"
    /\ refresh_token = "rtA"
    /\ isRefreshing = FALSE
    /\ af = Idle
    /\ recipe = "plain rice"
    /\ analysis \in {x \in ShownAnalyses : x.member_verdicts = <<>>}
    /\ loading = FALSE
    /\ error = NULL
    /\ profile = [members |-> SubSeq(MemberList, 1, 1)]
    /\ mounted = TRUE
    /\ hadAnalysis = FALSE
    /\ savedRecipe = NoSavedRecipe
    /\ expanded = FALSE
    /\ scanResult = NoScanResult
    /\ LimiterIdle
    /\ AuthIdle
    /\ RecipesIdle
    /\ RefreshIdle
    /\ OnlySave
    /\ saving = FALSE
    /\ saved = FALSE
    /\ saveError = NULL
    /\ serverSaved = <<>>
    /\ saveClicks = 0
    /\ analyzedText = recipe

NextSave ==
    \/ setRecipe
    \/ handleSave
    \/ saveFirstFetchSettles
    \/ RefreshSettles
    \/ saveSecondFetchSettles
    \/ BackoffElapses
    \/ handleSaveSettles

SpecSave == InitSave /\ [][NextSave]_vars


----
\* The Shopping page once loadLists has answered.
InitShopping ==
    /\ token = "atA"
    /\ refresh_token = "rtA"
    /\ isRefreshing = FALSE
    /\ PageIdle
    /\ LimiterIdle
    /\ AuthIdle
    /\ RecipesIdle
    /\ RefreshIdle
    /\ OnlyShopping
    /\ serverItems \in ItemLists
    /\ listItems = serverItems
    /\ nextItemId = 3
    /\ shopReqs = <<>>
    /\ shopFailed = FALSE

NextShopping ==
    \/ \E item \in listItems : handleToggleItem(item)
    \/ \E i \in 1..Len(shopReqs) : handleToggleItemSettles(i)
    \/ \E id \in ItemIds : handleDeleteItem(id)
    \/ \E i \in 1..Len(shopReqs) : handleDeleteItemSettles(i)
    \/ handleAddItem
    \/ \E i \in 1..Len(shopReqs) : handleAddItemSettles(i)

SpecShopping == InitShopping /\ [][NextShopping]_vars


----
\* The meal planner: the mount effect's loadPlan is in flight.
InitPlanner ==
    /\ token = "atA"
    /\ refresh_token = "rtA"
    /\ isRefreshing = FALSE
    /\ PageIdle
    /\ LimiterIdle
    /\ AuthIdle
    /\ RecipesIdle
    /\ RefreshIdle
    /\ OnlyPlanner
    /\ currentWeek = 0
    /\ plan = Null
    /\ planLoading = TRUE
    /\ planReqs = <<[week |-> 0]>>
    /\ planFailed = FALSE

NextPlanner ==
    \/ handlePrevWeek
    \/ handleNextWeek
    \/ handleThisWeek
    \/ \E i \in 1..Len(planReqs) : loadPlanSettles(i)

SpecPlanner == InitPlanner /\ [][NextPlanner]_vars


----
\* AuthProvider with the login and register pages, once the initial
\* refreshUser has settled: signed in, or signed out with nothing stored.
InitLogin ==
    /\ \/ token = "atA" /\ refresh_token = "rtA" /\ user = TheUser.id
       \/ token = NULL /\ refresh_token = NULL /\ user = NULL
    /\ isRefreshing = FALSE
    /\ PageIdle
    /\ LimiterIdle
    /\ authLoading = FALSE
    /\ lo = NoLogout
    /\ requireAuth = TRUE
    /\ screen = ProtectedRoute(user # NULL, authLoading, requireAuth)
    /\ pushed = IF ProtectedRouteEffect(user # NULL, authLoading, requireAuth)
                THEN "/login" ELSE NULL
    /\ RecipesIdle
    /\ RefreshIdle
    /\ ViewsIdle

NextLogin ==
    \/ \E kind \in {"login", "register"} : login(kind)
    \/ loginSettles
    \/ logout
    \/ logoutSettles
    \/ routerNavigates

SpecLogin == InitLogin /\ [][NextLogin]_vars


----
\* SpecAuth where network calls return or time out (fetchWithTimeout),
\* backoff timers fire and the continuations of settled promises and the
\* mount effects run.
FairSpecAuth ==
    /\ SpecAuth
    /\ WF_vars(initAuth)
    /\ WF_vars(refreshUserSettles)
    /\ WF_vars(loadProfileSettles)
    /\ WF_vars(Send1Settles)
    /\ WF_vars(RefreshSettles)
    /\ WF_vars(Send2Settles)
    /\ WF_vars(BackoffElapses)

----
\* Properties.

hist == af.hist
Is4xx(status) == status >= 400 /\ status <= 499
Is5xx(status) == status >= 500 /\ status <= 599

IsRequest(i) == hist[i].kind = "request"
IsRefresh(i) == hist[i].kind = "refresh"
RefreshedAt(i) == IsRefresh(i) /\ Ok(hist[i].status)
FirstOfAttempt(i) == i = 1 \/ hist[i - 1].attempt # hist[i].attempt

\* A network call is in flight.
InFlight == af.pc \in {"send1", "refresh", "send2"}

\* The call has ended in failure: it threw, or returned a response that
\* is not ok.
CallFailed == af.pc = "done" /\ (af.err # "" \/ ~Ok(af.res.status))
CallReturned == af.pc = "done" /\ af.err = ""

\* Indices of the requests (not refreshes) of the call so far.
RequestIdx == {i \in 1..Len(hist) : IsRequest(i)}
LastRequest == CHOOSE i \in RequestIdx : \A j \in RequestIdx : j <= i

\* Network calls of attempt k: settled ones, and the one in flight.
RequestsOf(k) ==
    Cardinality({i \in RequestIdx : hist[i].attempt = k})
    + (IF af.pc \in {"send1", "send2"} /\ af.attempt = k THEN 1 ELSE 0)
RefreshesOf(k) ==
    Cardinality({i \in 1..Len(hist) : IsRefresh(i) /\ hist[i].attempt = k})
    + (IF af.pc = "refresh" /\ af.attempt = k THEN 1 ELSE 0)

\* C2 (as claimed): the member ids of the verdicts of an analysis returned
\* by analyzeRecipe are exactly the member ids of the submitted profile,
\* each once.
C2_AsClaimed ==
    analysis # Null =>
        LET ids == [i \in 1..Len(analysis.member_verdicts) |->
                        analysis.member_verdicts[i].member_id]
        IN  /\ Range(ids) = Range(profile.members)
            /\ IsInjective(ids)

\* C3: on the Adapt page an analysis and an error are never shown
\* together; when an analyze request fails the analysis is null and the
\* error is set, and when it succeeds the analysis is that request's
\* response and the error is null.
C3_Settles ==
    (af.pc = "done" /\ af.op = "analyzeRecipe" /\ af'.pc = "idle") =>
        IF af.err # "" \/ ~Ok(af.res.status)
        THEN analysis' = Null /\ error' # NULL /\ ~loading'
        ELSE analysis' = af.res.body /\ error' = NULL /\ ~loading'
C3_EitherOr == [](~(analysis # Null /\ error # NULL)) /\ [][C3_Settles]_vars

\* An analyze request failed while an analysis from an earlier request was
\* on screen when it started.
C3_Witness ==
    /\ hadAnalysis
    /\ ~loading
    /\ error # NULL
    /\ analysis = Null

\* The model output behind the i-th network call did not parse.
Unparseable(i) == IsRequest(i) /\ hist[i].llm = "unparseable"

AnalyzeDone == af.pc = "done" /\ af.op = "analyzeRecipe"

\* C6 (as claimed): when the model output of a request of the call does
\* not parse, the response is non-2xx and analyzeRecipe rejects.
C6_AsClaimed ==
    (AnalyzeDone /\ \E i \in 1..Len(hist) : Unparseable(i)) =>
        /\ \A i \in 1..Len(hist) : Unparseable(i) => ~Ok(hist[i].status)
        /\ ~analyzeRecipe(af).ok

\* C6 (amended): model output that does not parse is answered with a
\* non-2xx response (500) whose body is {detail: string} and carries no
\* analysis; analyzeRecipe never resolves with that response, and it
\* rejects when it is the response to the call's last request.  (The 500
\* is retried like any 5xx, so the call can still resolve with the
\* response to a later request whose model output parsed.)
C6_UnparseableFails ==
    /\ \A i \in 1..Len(hist) : Unparseable(i) => hist[i].status = 500
    /\ (af.res # Null /\ af.res.llm = "unparseable") =>
          (af.res.status = 500 /\ DOMAIN af.res.body = {"detail"})
    /\ (AnalyzeDone /\ Unparseable(Len(hist))) => ~analyzeRecipe(af).ok
    /\ (AnalyzeDone /\ analyzeRecipe(af).ok) =>
          /\ ~Unparseable(LastRequest)
          /\ analyzeRecipe(af).data = af.res.body
          /\ RecipeAnalysisModel(af.res.body)

\* The third request's model output did not parse either, and the call
\* ended with the 500.
C6_Witness ==
    /\ AnalyzeDone
    /\ af.attempt = DefaultRetries + 1
    /\ Unparseable(Len(hist))
    /\ ~analyzeRecipe(af).ok

\* C7: one call makes at most DefaultRetries + 1 = 3 attempts, an attempt
\* follows another only after a 5xx response, and a call that returns
\* returns the response of its last request whatever its status.
C7_BoundedRetries ==
    /\ af.attempt <= DefaultRetries + 1
    /\ af.pc # "idle" => af.retries = DefaultRetries - (af.attempt - 1)
    /\ \A i \in 1..Len(hist) :
          (i < Len(hist) /\ hist[i + 1].attempt # hist[i].attempt)
              => IsRequest(i) /\ Is5xx(hist[i].status)
    /\ CallReturned => af.res.status = hist[LastRequest].status

\* The third attempt was answered with a 5xx response, which is returned.
C7_Witness ==
    /\ CallReturned
    /\ af.attempt = DefaultRetries + 1
    /\ Is5xx(af.res.status)

\* C8 (as claimed): once a request of the call is answered with a 4xx
\* status it is not sent again, and the call ends with that response.
C8_AsClaimed ==
    \A i \in RequestIdx :
        Is4xx(hist[i].status) =>
            /\ \A j \in RequestIdx : j <= i
            /\ af.pc \in {"refresh", "done"}
            /\ af.pc = "done" => (af.err = "" /\ af.res.status = hist[i].status)

\* C8 (amended): a 4xx response other than 401 is never retried, and
\* neither is a 401 that answers the re-sent request: the request is not
\* sent again and the call returns that response.  The 401 that answers
\* the first request of an attempt is followed by a token refresh, and
\* the request is sent again once, only when the refresh succeeded;
\* otherwise the call returns the 401.
C8_No4xxRetry ==
    \A i \in RequestIdx :
        Is4xx(hist[i].status) =>
            IF hist[i].status = 401 /\ FirstOfAttempt(i)
            THEN /\ i < Len(hist) => IsRefresh(i + 1)
                 /\ (\E j \in RequestIdx : j > i) => RefreshedAt(i + 1)
                 /\ af.pc = "send2" /\ i = Len(hist) - 1 => RefreshedAt(i + 1)
                 /\ RequestsOf(hist[i].attempt) <= 2
                 /\ (af.pc = "done" /\ ~(i < Len(hist) /\ RefreshedAt(i + 1)))
                        => (af.err = "" /\ af.res.status = 401)
            ELSE /\ i = Len(hist)
                 /\ af.pc = "done"
                 /\ af.err = ""
                 /\ af.res.status = hist[i].status

\* A 401 was followed by a successful refresh, the request was sent again
\* and answered with a 4xx status, and the call ended with it.
C8_Witness ==
    /\ af.pc = "done"
    /\ Len(hist) >= 3
    /\ hist[Len(hist) - 2].status = 401
    /\ RefreshedAt(Len(hist) - 1)
    /\ IsRequest(Len(hist))
    /\ Is4xx(hist[Len(hist)].status)

\* C9 (as claimed): a network failure is retried like a 5xx response: a
\* call fails on a network failure only when no retry is left.
C9_AsClaimed ==
    (af.pc = "done" /\ Len(hist) > 0 /\ hist[Len(hist)].message \in FetchFailures)
        => af.retries = 0

\* C9 (amended): only HTTP 5xx responses are retried; a request that ends
\* in a network failure is not retried: it is the last network call of
\* the call, whichever attempt it occurs in, and its error is thrown to
\* the caller.
C9_NetworkFailureEndsCall ==
    \A i \in 1..Len(hist) :
        (IsRequest(i) /\ hist[i].message \in FetchFailures) =>
            /\ i = Len(hist)
            /\ af.pc = "done"
            /\ af.err # ""

\* The first request failed on the network and the call ended with both
\* retries left.
C9_Witness ==
    /\ af.pc = "done"
    /\ Len(hist) = 1
    /\ hist[1].message = "Failed to fetch"
    /\ af.retries = DefaultRetries
    /\ af.err = NetworkErrorMessage

\* C10 (as claimed): every attempt makes exactly one network call, and a
\* call that ends in failure leaves the stored tokens as they were.
C10_AsClaimed ==
    /\ \A k \in 1..af.attempt : RequestsOf(k) + RefreshesOf(k) = 1
    /\ CallFailed => <<token, refresh_token>> = af.tok0

\* The first request of an attempt that was answered with 401.
Unauthorized == {i \in RequestIdx : hist[i].status = 401 /\ FirstOfAttempt(i)}
LastUnauthorized == CHOOSE i \in Unauthorized : \A j \in Unauthorized : j <= i

\* C10 (amended): every attempt sends the request once; only when the
\* answer is 401 it makes at most one refresh call and, exactly when the
\* refresh succeeded, sends the request a second time.  A call that ends
\* in failure leaves the stored tokens as they were unless a request of it
\* was answered with 401; then both tokens are removed (no refresh token,
\* or the refresh failed) or both are the pair the last refresh returned.
C10_CallsAndTokens ==
    /\ \A k \in 1..af.attempt :
          /\ RequestsOf(k) \in {1, 2}
          /\ RefreshesOf(k) <= 1
          /\ RefreshesOf(k) = 1 =>
                \E i \in Unauthorized : hist[i].attempt = k
          /\ RequestsOf(k) = 2 <=>
                \E i \in Unauthorized :
                    hist[i].attempt = k /\ i < Len(hist) /\ RefreshedAt(i + 1)
    /\ CallFailed =>
          IF Unauthorized = {}
          THEN <<token, refresh_token>> = af.tok0
          ELSE IF LastUnauthorized < Len(hist) /\ RefreshedAt(LastUnauthorized + 1)
          THEN /\ <<token, refresh_token>> \in TokenPairs
               /\ token = hist[LastUnauthorized + 2].auth
          ELSE token = NULL /\ refresh_token = NULL

\* A call that started with both tokens stored ended in failure after a
\* 401 and a failed refresh: the tokens are gone.
C10_Witness ==
    /\ CallFailed
    /\ af.tok0 = <<"atA", "rtA">>
    /\ Unauthorized # {}
    /\ IsRefresh(Len(hist))
    /\ token = NULL

\* C1 (as claimed): every member verdict shown has a value of VerdictType.
C1_AsClaimed ==
    LET view == SavedRecipeCard(savedRecipe, expanded)
    IN  \A i \in 1..Len(view.cards) : view.cards[i].verdict \in VerdictType

\* C4 (as claimed): a recipe or product is presented as safe, by label or
\* by styling, only when its analysis exists and its overall_safety is
\* "safe".
IsSafe(x) == Has(x, "overall_safety") /\ x.overall_safety = "safe"
C4_AsClaimed ==
    LET view == SavedRecipeCard(savedRecipe, expanded)
        scan == ScanResultDisplay(scanResult)
    IN  /\ (view.safetyLabel = "Safe" \/ view.safetyColor = SAFETY_COLORS.safe)
            => (Has(savedRecipe, "analysis") /\ IsSafe(savedRecipe.analysis))
        /\ scan = SAFETY_CONFIG.safe => IsSafe(scanResult)

\* C5 (as claimed): an analysis without the member_verdicts field is not
\* displayed as an analysis with no verdicts.
C5_AsClaimed ==
    (Has(savedRecipe, "analysis") /\ ~Has(savedRecipe.analysis, "member_verdicts"))
        => ~SavedRecipeCard(savedRecipe, expanded).familyAnalysis

----
\* C11 (as claimed): a network call that the 30 s timer aborts is the last
\* network call of the authenticatedFetch call, whose caller receives the
\* timeout failure, which is not the network failure.
C11_AsClaimed ==
    \A i \in 1..Len(hist) :
        hist[i].message = TimeoutMessage =>
            /\ i = Len(hist)
            /\ af.pc = "done"
            /\ af.err = TimedOutMessage
            /\ af.err # NetworkErrorMessage

\* Network calls the call has made so far, the one in flight included.
NetworkCalls == Len(hist) + (IF InFlight THEN 1 ELSE 0)

\* What is left of a call: the retries, then the position in the attempt.
Rank(a) ==
    CASE a.pc = "send1" -> 4 * a.retries + 4
      [] a.pc = "refresh" -> 4 * a.retries + 3
      [] a.pc = "send2" -> 4 * a.retries + 2
      [] a.pc = "backoff" -> 4 * a.retries + 1
      [] OTHER -> 0

C12_RankDecreases ==
    (af.pc \notin {"idle", "done"} /\ af' # af) => Rank(af') < Rank(af)

\* C12: every call of authenticatedFetch terminates after a bounded number
\* of network calls, whatever the responses and the outcome of the token
\* refresh: it makes at most 3 network calls in each of its at most
\* DefaultRetries + 1 attempts, and every step of a call in progress (a
\* network call settling, the backoff timer firing) brings it closer to
\* its end.
C12_Terminates ==
    /\ [](NetworkCalls <= 3 * (DefaultRetries + 1) /\ af.retries >= 0)
    /\ [][C12_RankDecreases]_vars

\* The longest call: 401, refresh, 5xx in each of the three attempts.
C12_Witness ==
    /\ af.pc = "done"
    /\ Len(hist) = 3 * (DefaultRetries + 1)

\* C15 (as claimed): after a 401, an accepted refresh and the request sent
\* again, the caller receives the response to that second request.
C15_AsClaimed ==
    \A i \in Unauthorized :
        (i + 2 <= Len(hist) /\ RefreshedAt(i + 1) /\ hist[i + 2].message = ""
            /\ af.pc = "done")
        => (af.err = "" /\ LastRequest = i + 2)

C15_RefreshStep ==
    (af.pc = "refresh" /\ af'.pc = "send2") =>
        /\ \E r \in RefreshResponses(af.rt) :
              /\ token' = r.body.access_token
              /\ refresh_token' = r.body.refresh_token
        /\ af'.auth = token'
        /\ af'.auth # NULL

\* C15 (amended): when a request is answered with 401 while a refresh token
\* is stored and the refresh endpoint accepts it, the new access and
\* refresh tokens are stored and the request is sent again once with the
\* new access token; the attempt goes on with the outcome of that second
\* request and never with the 401.  The caller receives the response to
\* the second request unless that response is a 5xx that is retried (then
\* the caller receives the outcome of a later attempt) or the second
\* request fails (then the caller receives the error).
C15_SilentRenewal ==
    /\ [](\A i \in Unauthorized :
            (i < Len(hist) /\ RefreshedAt(i + 1)) =>
                /\ hist[i].attempt = af.attempt => RequestsOf(af.attempt) = 2
                /\ i + 2 <= Len(hist) =>
                      /\ IsRequest(i + 2)
                      /\ hist[i + 2].attempt = hist[i].attempt
                      /\ hist[i + 2].auth \in {p[1] : p \in TokenPairs}
                      /\ hist[i + 2].auth # hist[i].auth
                /\ i + 2 < Len(hist) =>
                      /\ Is5xx(hist[i + 2].status)
                      /\ hist[i + 3].attempt = hist[i].attempt + 1
                /\ (i + 2 = Len(hist) /\ af.pc = "done") =>
                      IF hist[i + 2].message = ""
                      THEN af.err = "" /\ af.res.status = hist[i + 2].status
                      ELSE af.err # "")
    /\ [][C15_RefreshStep]_vars

\* The 401 was silently renewed and the call returned the 200 that the
\* second request was answered with.
C15_Witness ==
    /\ CallReturned
    /\ Len(hist) = 3
    /\ hist[1].status = 401
    /\ RefreshedAt(2)
    /\ hist[3].status = 200
    /\ hist[3].auth = token
    /\ af.res.status = 200

\* The explicit state machine {Attempting(n), Succeeded, Failed(kind)}.
Attempting(n) == [s |-> "Attempting", n |-> n, kind |-> "none"]
Succeeded == [s |-> "Succeeded", n |-> 0, kind |-> "none"]
Failed(kind) == [s |-> "Failed", n |-> 0, kind |-> kind]

\* Its pure decision on (status, attempt count).
SMDecide(status, n) ==
    IF status >= 500 /\ status <= 599 /\ n < 3 THEN "retry" ELSE "stop"

SMOutcome(status) ==
    IF status >= 200 /\ status <= 299 THEN Succeeded ELSE Failed("status")

\* The state of the machine that a state of authenticatedFetch stands
\* for; the wait before the recursive call already belongs to the next
\* attempt.
SMState(a) ==
    CASE a.pc \in {"send1", "refresh", "send2"} -> Attempting(a.attempt)
      [] a.pc = "backoff" -> Attempting(a.attempt + 1)
      [] a.pc = "done" /\ a.err # "" -> Failed("error")
      [] a.pc = "done" /\ a.err = "" -> SMOutcome(a.res.status)
      [] OTHER -> [s |-> "none", n |-> 0, kind |-> "none"]

C20_Step ==
    LET n == af.attempt
    IN  /\ (af.pc \in {"send1", "refresh", "send2"} /\ af'.pc \in {"backoff", "done"}
                /\ af'.err = "")
            => /\ SMState(af) = Attempting(n)
               /\ SMState(af') =
                     IF SMDecide(af'.res.status, n) = "retry"
                     THEN Attempting(n + 1)
                     ELSE SMOutcome(af'.res.status)
        /\ (af.pc \in {"send1", "refresh", "send2", "backoff"}
                /\ ~(af'.pc \in {"backoff", "done"} /\ af.pc # "backoff"))
            => SMState(af') = SMState(af)

\* C20: authenticatedFetch behaves as the state machine: the attempt that
\* ends with status s in Attempting(n) is followed by Attempting(n+1)
\* exactly when s is 5xx and n < 3, and otherwise the call stops in
\* Succeeded or Failed; no other step of the call changes the state of the
\* machine, and the machine never reaches an attempt beyond the third.
C20_StateMachine ==
    /\ [](SMState(af).s = "Attempting" => SMState(af).n \in 1..3)
    /\ [][C20_Step]_vars

\* The second attempt ended with a 5xx: the machine is in Attempting(3)
\* while the code waits before its recursive call.
C20_Witness ==
    /\ af.pc = "backoff"
    /\ af.attempt = 2
    /\ SMState(af) = Attempting(3)

\* The failure kind a finished call of analyzeRecipe ended with.
FailureKind(a) ==
    CASE a.err = TimedOutMessage -> "Timeout"
      [] a.err # "" -> "Network"
      [] a.res.status = 429 -> "RateLimited"
      [] Is4xx(a.res.status) -> "Rejected"
      [] Is5xx(a.res.status) -> "MalformedResponse"
      [] OTHER -> "none"

\* Calls of analyzeRecipe that ended with their first request, one for
\* every failure of that request.
EndedCalls ==
    LET f == Enter("analyzeRecipe", Null, 0, DefaultRetries + 1, <<>>,
                   <<NULL, NULL>>, NULL)
    IN  {LET o == fetchWithTimeout(raw)
         IN  IF o.kind = "reject" THEN OnReject(f, FirstError(o.message))
             ELSE Finish(f, o) :
            raw \in ErrorResponses \cup FetchRejections}

C14_Step ==
    (AnalyzeDone /\ af'.pc = "idle" /\ error' # NULL) =>
        \A b \in EndedCalls :
            FailureKind(b) # FailureKind(af) =>
                handleAnalyzeCatch(analyzeRecipe(b).error) # error'

\* C14 (as claimed): the message the Adapt page shows for a failed
\* analysis is not the message it shows for a failure of another kind
\* (Timeout, Rejected, RateLimited, MalformedResponse).
C14_AsClaimed == [][C14_Step]_vars

C13_Step ==
    \A k \in Keys :
        /\ counters[k] >= limits[k[2]] => outbound'[k] <= outbound[k]
        /\ (lastCall' # lastCall /\ lastCall'.result = "RateLimited")
              => outbound' = outbound
        /\ (lastCall' # lastCall /\ lastCall'.user = k[1] /\ lastCall'.class = k[2]
                /\ counters[k] = limits[k[2]])
              => lastCall'.result = "RateLimited"

\* C13: for each (user, endpoint class) with limit N, at most N calls are
\* admitted, and passed on as outbound calls, within one window; a call
\* made when N calls are in the window fails with RateLimited and no
\* outbound call is made.
C13_RateLimit ==
    /\ [](\A k \in Keys : outbound[k] <= limits[k[2]] /\ counters[k] = outbound[k])
    /\ [][C13_Step]_vars

\* A user's call was refused with the window full.
C13_Witness ==
    /\ lastCall.result = "RateLimited"
    /\ outbound[<<lastCall.user, lastCall.class>>] = limits[lastCall.class]
    /\ limits[lastCall.class] = MaxLimit

\* C16: ProtectedRoute renders its children only when auth loading has
\* finished and the user is authenticated or requireAuth is false; while
\* loading it renders the spinner only; when loading has finished and the
\* user is not authenticated it renders nothing and the router is sent to
\* /login.
C16_Protected ==
    screen # "login" =>
        /\ screen = "children" => (~authLoading /\ (user # NULL \/ ~requireAuth))
        /\ authLoading => screen = "spinner"
        /\ (~authLoading /\ requireAuth /\ user = NULL)
              => (screen = "null" /\ pushed = "/login")

\* Loading has finished without a user on a page that requires one.
C16_Witness ==
    /\ screen = "null"
    /\ pushed = "/login"
    /\ ~authLoading
    /\ requireAuth
    /\ user = NULL

C17_Step ==
    (lo' # lo /\ lo'.pc = "idle") =>
        /\ token' = NULL
        /\ refresh_token' = NULL
        /\ user' = NULL

\* C17: when logout() resolves, the access token and the refresh token
\* have been removed from storage and AuthProvider's user is null,
\* whether the logout request succeeded, was answered with an error, timed
\* out, failed on the network, or was not made for lack of a stored token.
C17_LogoutEndsSession == [][C17_Step]_vars

\* A logout whose request timed out has resolved.
C17_Witness ==
    /\ lo = [pc |-> "idle", outcome |-> "timeout"]
    /\ token = NULL
    /\ refresh_token = NULL
    /\ user = NULL

\* C18 (as claimed): while the favorites filter is selected on the My
\* Recipes page and no load is pending, every recipe shown has
\* is_favorite = true.
C18_AsClaimed ==
    (filter = "favorites" /\ ~recipesLoading
        /\ \A i \in 1..Len(requests) : requests[i].kind # "load")
    => \A r \in filteredRecipes : r.is_favorite

\* The calls whose refresh request is in flight, and the calls that wait
\* for the refresh of another call.
RefreshOwners == {c \in Callers : calls[c].f.pc = "refresh" /\ calls[c].awaits = c}
RefreshWaiters == {c \in Callers : calls[c].f.pc = "refresh" /\ calls[c].awaits # c}

C19_Step ==
    /\ \A c \in Callers :
          (calls[c].f.pc = "send1" /\ calls'[c].f.pc = "refresh" /\ RefreshOwners # {})
              => /\ calls'[c].awaits \in RefreshOwners
                 /\ calls'[c].f.rt = NULL
                 /\ UNCHANGED <<token, refresh_token, isRefreshing, refreshPromise>>
    /\ \A p \in RefreshOwners :
          calls'[p].f.pc # "refresh" =>
              \A c \in RefreshWaiters :
                  /\ calls'[c].f.pc # "refresh"
                  /\ calls'[c].f.pc = "send2" <=> calls'[p].f.pc = "send2"
                  /\ calls'[c].f.pc = "send2" => calls'[c].f.auth = token'

\* C19: at most one POST /api/auth/refresh is in flight at any time; a
\* refreshAccessToken call made while a refresh is in progress sends no
\* request, waits for the refresh in progress and resolves with its
\* result.
C19_OneRefresh ==
    /\ [](/\ Cardinality(RefreshOwners) <= 1
          /\ isRefreshing <=> RefreshOwners # {}
          /\ refreshPromise # Null <=> RefreshOwners # {}
          /\ \A c \in RefreshWaiters : calls[c].awaits \in RefreshOwners)
    /\ [][C19_Step]_vars

\* Two calls were answered with 401: one refresh request is in flight and
\* the other call waits for it.
C19_Witness ==
    /\ Cardinality(RefreshOwners) = 1
    /\ RefreshWaiters # {}

----
\* C21 (as claimed): whenever AuthProvider reports isAuthenticated (user
\* is not null) and no auth operation or request is in progress, an access
\* token is stored.
C21_AsClaimed ==
    (user # NULL /\ ~authLoading /\ lo.pc = "idle" /\ af.pc = "idle")
        => token # NULL

C22_Step ==
    (lo.pc = "idle" /\ lo.outcome # "none" /\ user = NULL
        /\ token = NULL /\ refresh_token = NULL)
    => (token' = NULL /\ refresh_token' = NULL)

\* C22 (as claimed): once logout() has resolved, no access token and no
\* refresh token is written to storage again (no login or register
\* follows here), whatever requests were in flight when logout started.
C22_AsClaimed == [][C22_Step]_vars

\* C23 (as claimed): once the requests of the toggles have all completed
\* successfully, the member stored on the server has every toggle of the
\* user applied, when the toggled conditions are different ones.
C23_AsClaimed ==
    (/\ memberReqs = <<>>
     /\ ~memberFailed
     /\ Len(toggles) = 2
     /\ toggles[1] # toggles[2])
    => \A t \in ConditionTypes :
           isConditionEnabled(serverMember, t) = isConditionEnabled(intended, t)

\* C24 (as claimed): whenever a barcode safety analysis is displayed, it
\* is the analysis of the product that is currently displayed.
C24_AsClaimed ==
    barcodeAnalysis # Null
        => (/\ barcodeProduct # Null
            /\ barcodeAnalysis.product.barcode = barcodeProduct.barcode)

\* C25 (as claimed): the recipe_text sent with a save is the text that was
\* submitted for the analysis being saved, whatever edits of the textarea
\* came between the analysis and the save.
C25_AsClaimed ==
    af.op = "saveRecipe" => af.req.recipe_text = analyzedText

\* C26 (as claimed): the server creates at most one saved recipe per click
\* on "Save", also when it answers 5xx after having created it.
C26_AsClaimed ==
    Len(serverSaved) <= saveClicks

\* C27 (as claimed): once all item requests of the list have completed
\* successfully, the "checked/total" count shown equals the number of
\* checked items and the number of items stored on the server.
C27_AsClaimed ==
    (shopReqs = <<>> /\ ~shopFailed)
        => (/\ checkedCount(listItems) = checkedCount(serverItems)
            /\ totalCount(listItems) = totalCount(serverItems))

\* C28 (as claimed): once all pending loads have completed (none having
\* failed), the plan held is the plan of the week displayed and the meals
\* shown are that week's.
C28_AsClaimed ==
    (planReqs = <<>> /\ ~planFailed)
        => (/\ plan = getMealPlan(currentWeek)
            /\ getMealsForWeek(plan, currentWeek) = getMealPlan(currentWeek).meals)

C29_Step ==
    /\ (li.pc = "idle" /\ li'.pc = "fetch")
          => UNCHANGED <<token, refresh_token, user>>
    /\ (li.pc = "fetch" /\ li'.pc = "idle" /\ li'.outcome = "failed")
          => (/\ UNCHANGED <<token, refresh_token, user>>
              /\ formError' # "")

\* C29: a failed login or register (non-2xx response, timeout or network
\* failure) leaves the stored access token, the stored refresh token and
\* AuthProvider's user as they were, and its error reaches the caller
\* (the page shows its message).
C29_FailedLoginChangesNothing == [][C29_Step]_vars

\* A login failed while tokens were stored and a user was set.
C29_Witness ==
    /\ li.pc = "idle"
    /\ li.outcome = "failed"
    /\ formError # ""
    /\ token # NULL
    /\ refresh_token # NULL
    /\ user # NULL

\* C30: AuthProvider's loading flag starts true, becomes false once the
\* initial refreshUser has settled and never becomes true again; the
\* protected page then stops showing its spinner for good.
C30_LoadingSettles ==
    /\ authLoading = TRUE
    /\ [][authLoading = FALSE => authLoading' = FALSE]_vars
    /\ <>[](authLoading = FALSE)
    /\ <>[](screen # "spinner")

\* The initial refreshUser made a request that failed, and loading is
\* false.
C30_Witness ==
    /\ ~authLoading
    /\ user = NULL
    /\ token = NULL
    /\ refresh_token # NULL
    /\ af.pc = "idle"
    /\ lo = NoLogout
    /\ screen # "spinner"
    /\ ~mounted

====
